---- MODULE Spec2Model ----
(***************************************************************************)
(* Collection coordination engine of neural-nexus: the match lock          *)
(* (services/shared/storage/match_lock.py), the match store                *)
(* (database/operations/match_ops.py), the per-match collection cycle      *)
(* (services/nexus/collector.py), the collection queue                     *)
(* (database/operations/queue_ops.py), the tier cascade scheduler          *)
(* (services/collector/queue_manager.py), the players table and its        *)
(* writers (database/operations/player_ops.py, services/nexus), the        *)
(* regional rate limiter (services/collector/api/rate_limiter.py) and the  *)
(* region threads of the unified runner.                                   *)
(*                                                                         *)
(* Time is counted in hours.  Every SQL statement is one atomic step on    *)
(* the table it names; a transaction made of several statements            *)
(* (try_acquire) is several steps, so other workers interleave with it.    *)
(***************************************************************************)
EXTENDS Integers, FiniteSets, Sequences, TLC

\* ------------------------------------------------------------------ bounds
NumWorkers == 2
NumMatches == 1
MaxTime == 2
NumThreads == 2
NumPlayers == 2
NumRegions == 1
NumPuuids == 2
NumCallers == 3
NumBuckets == 2
MaxClock == 4
\* settings.RATE_LIMIT_REQUESTS and settings.RATE_LIMIT_WINDOW_SECONDS (set by
\* the environment; 100 and 120 when unset)
RATE_LIMIT_REQUESTS == 2
RATE_LIMIT_WINDOW_SECONDS == 2
\* largest increment one call passes for a counter, and the value the counters
\* are followed up to
MaxInc == 1
MaxCount == 2
\* update_stats calls followed in one run
MaxCalls == 3
\* participants and bans listed in the data of one match
NumParticipants == 2
NumBans == 2
\* players the queues hold when the runner starts
NumQueued == 2
\* matches played while the per-region collector is followed
NumPlayed == 2

\* ------------------------------------------------- program constants
\* INTERVAL '1 hour' of the INSERT in try_acquire
LockTTL == 1
\* consecutive_empty_checks >= 6 retires a region thread
EmptyLimit == 6
\* mark_queue_complete: next_check = CURRENT_TIMESTAMP + INTERVAL '24 hours'
CompleteDelay == 24
\* mark_queue_error: next_check = CURRENT_TIMESTAMP + INTERVAL '1 hour'
ErrorDelay == 1
\* boost_player_priority: next_check = now + 12 hours
BoostDelay == 12
\* queue priorities: seeded APEX players, network-discovered NEXUS players
SeedPriority == 10
NexusPriority == 3

Workers == 1..NumWorkers
MatchIds == 1..NumMatches

\* the pipeline a worker belongs to ('nexus' or 'apex')
Service(w) == IF w % 2 = 1 THEN "nexus" ELSE "apex"

\* a lock row left behind by a run that ended before this one started
PreviousRun == 0

\* the two get_match_history batches that open collect_player_matches
HistoryCalls == 2

\* the stats dict when collect_player_matches starts
NoStats == [success |-> TRUE, matches_collected |-> 0, matches_skipped |-> 0]

VARIABLES
    now,          \* wall clock / CURRENT_TIMESTAMP, in hours
    match_locks,  \* table match_locks: set of rows (match_id, locked_by, expires_at);
                  \* history fields of a row: by = the worker that inserted it,
                  \* at = the hour its try_acquire started
    matches,      \* table matches: set of rows (match_id, collected_by)
    pc,           \* pc[w]: position of worker w inside collect_player_matches
    todo,         \* todo[w]: match ids of the player's history not yet visited
    cur,          \* cur[w]: the match id _collect_single_match was called with
    txStart,      \* txStart[w]: NOW() of the try_acquire transaction
    sel,          \* sel[w]: rows fetched by the SELECT of try_acquire
    reason,       \* reason[w]: result['reason'] of the last _collect_single_match
    calls,        \* history: one record per finished try_acquire call
    inserted,     \* history: inserted[m] = number of insert_match(m) calls that returned True
    released,     \* history: released[m] = nothing wrote m's lock row since the last release(m)
    tier,         \* tier[p]: column tier of player p
    queue,        \* table collection_queues: set of rows
    qpc,          \* qpc[t]: position of region thread t inside process_region
    taken,        \* taken[t]: the queue entry players[0] thread t works on
    empties,      \* empties[t]: consecutive_empty_checks of thread t
    nca,          \* nca[p]: column next_check_after of player p (per-region collector)
    lpc,          \* lpc[r]: position of the collector of region r inside CollectorService.run
    lsel,         \* lsel[r]: the player the collector of region r selected, and how
    players,      \* table players of the two pipelines: set of rows
    spc,          \* the natural key the seeder inserted and has yet to enqueue, or 0
    ppc,          \* ppc[w]: position of worker w inside _process_single_participant
    plocal,       \* plocal[w]: nexus_puuid, (game_name, tag_line) and tier worker w holds
    rpc,          \* rpc[r]: position of resolver r inside its resolution of one player
    rlocal,       \* rlocal[r]: the natural key of the player resolver r resolves or
                  \* has just resolved, or 0
    last_add,     \* history: arguments and return value of the last add_to_queue call
    clock,        \* time.time(), in seconds
    buckets,      \* RegionalRateLimiter.regions: per region tokens, window_start and
                  \* the thread that holds the region's Lock (0: nobody)
    acq,          \* acq[c]: position of calling thread c inside acquire, the region
                  \* it asked for and the time its sleep ends
    granted,      \* history: granted[r] = number of acquire(r) calls that returned
                  \* True since window_start of r
    should_stop,  \* UnifiedCollectionRunner.should_stop / GracefulShutdown.shutdown_requested
    shutdown_event, \* the Event of services/collector/main.py is set
    errors,       \* UnifiedCollectionRunner.errors
    system_status, \* table system_status: system_status[s][c] = counter column c of
                  \* the row of service s
    status_passed, \* history: status_passed[s][c] = sum of the increments passed for
                  \* column c of service s since the row was last reset
    run_stats,    \* UnifiedCollectionRunner: apex_players, nexus_players, apex_matches,
                  \* nexus_matches and total_api_calls
    region_stats, \* UnifiedCollectionRunner.region_stats[region]
    stats_passed, \* history: sum of the arguments passed to update_stats, per counter
    stats_lock,   \* UnifiedCollectionRunner.stats_lock: the thread inside it (0: nobody)
    upc,          \* upc[t]: position of region thread t around update_stats
    ucall,        \* ucall[t]: the arguments of thread t's update_stats call
    utmp,         \* utmp[t]: the counter values thread t loaded for its += statements
    last_status,  \* history: the last statement run on system_status and its service
    match_participants, \* table match_participants: set of rows
    match_bans,   \* table match_bans: set of rows
    match_data,   \* the match data process_match_participants is called with
    account_answers, \* account_answers[n]: what get_account_by_puuid(n) answers,
                  \* a Riot ID or 0 (no answer)
    league_answers, \* league_answers[n]: the solo-queue tier get_league_by_puuid(n)
                  \* answers, or "NONE"
    mp,           \* the run of process_match_participants under way and the index
                  \* of the participant it has reached
    first_run,    \* history: the tables as the first run left them
    api_calls,    \* api_calls[w]: stats['api_calls'] of worker w's collect_player_matches
    stats,        \* stats[w]: matches_collected and matches_skipped of the same call
    last_mark,    \* history: the last mark_queue_complete or mark_queue_error call,
                  \* its arguments and the value it returned
    wplayer,      \* wplayer[w]: the queue entry players[0] the region thread of
                  \* worker w runs collect_player_matches for
    match_list,   \* the ids get_match_list answers, the newest first
    last_match_id, \* last_match_id[p]: column last_match_id of player p (0: NULL)
    last_attempt, \* last_attempt[k]: column last_attempt of the queue entry with
                  \* key k (-1: NULL), while the sweep of stuck entries is studied
    last_sweep,   \* history: the arguments of the last sweep of stuck entries and
                  \* the number of rows it reset
    main_pc,      \* position of the main thread inside UnifiedCollectionRunner.run
    handler_pc,   \* position inside GracefulShutdown._signal_handler and the
                  \* callback _on_shutdown it runs on the main thread
    shutdown_requested, \* GracefulShutdown.shutdown_requested
    progress_saved, \* progress.save() was called by _on_shutdown
    service_state, \* service_state[s]: columns is_active and current_phase of
                  \* the system_status row of service s
    signals,      \* number of SIGINT / SIGTERM delivered to the runner
    exit_pending, \* a SystemExit raised by sys.exit(1) is propagating in run
    act,          \* NexusActivator.get_next_ready_player: its position, its
                  \* argument region, its local attempts and player, and what
                  \* it returned
    resolve_all,  \* NexusPUUIDResolver.resolve_all: its position, max_players,
                  \* processed and the players of the batch in progress
    limiter,      \* the RateLimiter of services/shared/api: _requests, and the
                  \* position of every thread that uses it
    scan          \* scan[r]: position of the collector of region r inside its
                  \* loop, the player it selected, new_matches and the index of
                  \* the for loop

lockVars == <<now, match_locks, matches, pc, todo, cur, txStart, sel, reason,
              calls, inserted, released, api_calls, stats, match_participants,
              match_bans>>

schedVars == <<now, tier, queue, qpc, taken, empties, nca, lpc, lsel,
               should_stop, shutdown_event, errors>>

\* the steps that neither request a shutdown nor count an error
StatsFrame == UNCHANGED <<should_stop, shutdown_event, errors>>

QThreads == 1..NumThreads
Players == 1..NumPlayers
Regions == 1..NumRegions

\* the region a player belongs to / a region thread was started for
PRegion(p) == ((p - 1) % NumRegions) + 1
TRegion(t) == ((t - 1) % NumRegions) + 1

NoEntry == [player |-> 0, queue_type |-> "none"]

\* the SQL NULL of a text column
NullText == "<NULL>"

\* stats.get('error', 'Unknown error') when the failure carries no text
UnknownError == "Unknown error"

\* the two failures collect_player_matches reports before it starts
ErrorMessages == {"Player not found in database", "Player missing NEXUS PUUID"}
NoPlayer == [player |-> 0, fallback |-> FALSE]

\* opaque identifiers the NEXUS key issues; NULL is the SQL NULL of a puuid column
Puuids == 1..NumPuuids
NULL == 0

\* the programs that resolve missing NEXUS identifiers
Resolvers == {"resolver", "activator"}

NoParticipant == [puuid |-> NULL, key |-> 0, tier |-> "NONE"]
NoResolution == 0
NoAdd == [key |-> 0, queue_type |-> "none", ret |-> FALSE]

\* threads that call the rate limiter, and settings.REGIONS
Callers == 1..NumCallers
BucketRegions == 1..NumBuckets

limVars == <<clock, buckets, acq, granted>>

\* the rate limiter while other parts are studied
LimOff ==
    /\ clock = 0
    /\ buckets = [r \in BucketRegions |->
                    [tokens |-> RATE_LIMIT_REQUESTS, window_start |-> 0, lock |-> 0]]
    /\ acq = [c \in Callers |-> [pc |-> "off", region |-> 0, sleep_until |-> 0]]
    /\ granted = [r \in BucketRegions |-> 0]

LimFrame == UNCHANGED <<clock, buckets, acq, granted>>

\* system_status.service_name and the counter columns of a row
Services == {"apex", "nexus"}
Counters == {"players_processed", "matches_collected", "api_calls_made",
             "errors_encountered"}

\* an Optional argument that was not passed
None == -1

\* the counters of the runner and the keys of a region_stats entry
RunCounters == {"apex_players", "nexus_players", "apex_matches", "nexus_matches",
                "total_api_calls"}
RegionCounters == {"apex_players", "nexus_players", "apex_matches", "nexus_matches"}
StatCounters == RunCounters \cup {"errors"}

NoCall == [region |-> 0, service |-> "none", players |-> 0, matches |-> 0,
           api_calls |-> 0, errors |-> 0]
NoLoad == [run |-> [c \in StatCounters |-> 0], region |-> [c \in RegionCounters |-> 0]]

NoStatement == [op |-> "none", service |-> "none"]

statusVars == <<system_status, status_passed, run_stats, region_stats, stats_passed,
                stats_lock, upc, ucall, utmp, last_status, errors>>

\* the status table and the runner's counters while other parts are studied
StatusOff ==
    /\ system_status = [s \in Services |-> [c \in Counters |-> 0]]
    /\ status_passed = [s \in Services |-> [c \in Counters |-> 0]]
    /\ run_stats = [c \in RunCounters |-> 0]
    /\ region_stats = [r \in Regions |-> [c \in RegionCounters |-> 0]]
    /\ stats_passed = [c \in StatCounters |-> 0]
    /\ stats_lock = 0
    /\ upc = [t \in QThreads |-> "off"]
    /\ ucall = [t \in QThreads |-> NoCall]
    /\ utmp = [t \in QThreads |-> NoLoad]
    /\ last_status = NoStatement

StatusFrame == UNCHANGED <<system_status, status_passed, run_stats, region_stats,
                           stats_passed, stats_lock, upc, ucall, utmp, last_status>>

NoMatchData == [match_id |-> 0, participants |-> <<>>, bans |-> <<>>]
NoTables == [players |-> {}, queue |-> {}, match_participants |-> {}, match_bans |-> {}]

\* the participant and ban tables while other parts are studied
PartOff ==
    /\ match_participants = {}
    /\ match_bans = {}
    /\ match_data = NoMatchData
    /\ account_answers = [n \in Puuids |-> 0]
    /\ league_answers = [n \in Puuids |-> "NONE"]
    /\ mp = [run |-> 0, idx |-> 0]
    /\ first_run = NoTables

\* the ban table and the twofold run
ReplayFrame == UNCHANGED <<match_bans, match_data, account_answers, league_answers,
                           mp, first_run>>

PartFrame == UNCHANGED match_participants /\ ReplayFrame

NoMark == [op |-> "none", key |-> NoEntry, error_message |-> NullText, ret |-> FALSE]

\* the parts only their own specification touches
MarkOff == last_mark = NoMark
MarkFrame == UNCHANGED last_mark

NoScan == [pc |-> "off", player |-> 0, new_matches |-> <<>>, idx |-> 0]

\* the runner's workers and the scanning collector while other parts are studied
ScanOff ==
    /\ wplayer = [w \in Workers |-> NoEntry]
    /\ match_list = <<>>
    /\ last_match_id = [p \in Players |-> 0]
    /\ scan = [r \in Regions |-> NoScan]

ScanFrame == UNCHANGED <<wplayer, match_list, last_match_id, scan>>

NoSweep == [queue_type |-> "none", timeout |-> 0, ret |-> 0, odd |-> FALSE]

\* the sweep of stuck queue entries while other parts are studied
SweepOff ==
    /\ last_attempt = <<>>
    /\ last_sweep = NoSweep

SweepFrame == UNCHANGED <<last_attempt, last_sweep>>

\* the parts of the maintenance programs, the activator and the resolver
\* the system_status row of a service that is not running
IdleService == [is_active |-> FALSE, current_phase |-> "idle"]

\* the runner's main thread and its signal handler while other parts are studied
RunOff ==
    /\ main_pc = "off"
    /\ handler_pc = "idle"
    /\ shutdown_requested = FALSE
    /\ progress_saved = FALSE
    /\ service_state = [s \in Services |-> IdleService]
    /\ signals = 0
    /\ exit_pending = FALSE

RunFrame == UNCHANGED <<main_pc, handler_pc, shutdown_requested, progress_saved,
                        service_state, signals, exit_pending>>

NoActivator == [pc |-> "off", region |-> 0, attempts |-> 0, player |-> 0, ret |-> 0]
NoResolveAll == [pc |-> "off", max_players |-> 0, processed |-> 0, batch |-> {},
                 found |-> 0, resolved |-> 0]
NoLimiter == [requests |-> <<>>, pc |-> <<>>, key |-> <<>>, time |-> 0]

\* the activator, resolve_all and the request log while other parts are studied
ActOff == act = NoActivator
ResolveAllOff == resolve_all = NoResolveAll
LimiterOff == limiter = NoLimiter
ExtraOff == ActOff /\ ResolveAllOff /\ LimiterOff
ExtraFrame == UNCHANGED <<act, resolve_all, limiter>>

TailOff == SweepOff /\ RunOff /\ ExtraOff
TailFrame == SweepFrame /\ RunFrame /\ ExtraFrame

QuietOff == MarkOff /\ ScanOff /\ TailOff
QuietFrame == MarkFrame /\ ScanFrame /\ TailFrame

\* the parts no step of the lock, the schedulers, the players table or the
\* limiter touches
RestOff == StatusOff /\ PartOff /\ QuietOff
RestFrame == StatusFrame /\ PartFrame /\ QuietFrame

identVars == <<queue, players, spc, ppc, plocal, rpc, rlocal, last_add>>

\* nobody writes the players table
IdentIdle ==
    /\ spc = 0
    /\ ppc = [w \in Workers |-> "off"]
    /\ plocal = [w \in Workers |-> NoParticipant]
    /\ rpc = [r \in Resolvers |-> "off"]
    /\ rlocal = [r \in Resolvers |-> NoResolution]
    /\ last_add = NoAdd

\* the players table and its writers while other parts are studied
IdentOff == players = {} /\ IdentIdle

IdentFrame == UNCHANGED <<players, spc, ppc, plocal, rpc, rlocal, last_add>>

\* no scheduler runs
SchedIdle ==
    /\ tier = [p \in Players |-> "UNKNOWN"]
    /\ qpc = [t \in QThreads |-> "stopped"]
    /\ taken = [t \in QThreads |-> NoEntry]
    /\ empties = [t \in QThreads |-> 0]
    /\ nca = [p \in Players |-> 0]
    /\ lpc = [r \in Regions |-> "stopped"]
    /\ lsel = [r \in Regions |-> NoPlayer]
    /\ should_stop = FALSE
    /\ shutdown_event = FALSE
    /\ errors = 0

\* the scheduler tables while only the lock and the collection cycle are studied
SchedOff == queue = {} /\ SchedIdle

LockFrame ==
    /\ UNCHANGED <<tier, queue, qpc, taken, empties, nca, lpc, lsel>>
    /\ UNCHANGED <<match_data, account_answers, league_answers, mp, first_run>>
    /\ StatsFrame /\ IdentFrame /\ LimFrame /\ StatusFrame /\ QuietFrame

\* the lock and match tables while only the schedulers are studied
LockOff ==
    /\ match_locks = {}
    /\ matches = {}
    /\ pc = [w \in Workers |-> "finished"]
    /\ todo = [w \in Workers |-> {}]
    /\ cur = [w \in Workers |-> 0]
    /\ txStart = [w \in Workers |-> 0]
    /\ sel = [w \in Workers |-> {}]
    /\ reason = [w \in Workers |-> "none"]
    /\ calls = {}
    /\ inserted = [m \in MatchIds |-> 0]
    /\ released = [m \in MatchIds |-> FALSE]
    /\ api_calls = [w \in Workers |-> 0]
    /\ stats = [w \in Workers |-> NoStats]

SchedFrame == UNCHANGED <<match_locks, matches, pc, todo, cur, txStart, sel, reason,
                          calls, inserted, released, api_calls, stats>>
              /\ IdentFrame /\ LimFrame
              /\ RestFrame

\* ------------------------------------------------------------ table access
\* SELECT locked_by, expires_at FROM match_locks WHERE match_id = m
LockRows(m) == {r \in match_locks : r.match_id = m}

\* variant: the expiry test allows one more TTL of grace
Expired_grace(r, t) == r.expires_at + LockTTL < t

\* result['expires_at'] < datetime.now()
Expired(r, t) == r.expires_at < t

\* SELECT 1 FROM matches WHERE match_id = m
match_exists(m) == \E r \in matches : r.match_id = m

ParticipantRow(m, k, pid) == [match_id |-> m, key |-> k, participant_id |-> pid]

\* variant: ON CONFLICT (match_id, region, game_name, tag_line) DO UPDATE
insert_participant_upsert(m, k, pid) ==
    {r \in match_participants : ~(r.match_id = m /\ r.key = k)}
        \cup {ParticipantRow(m, k, pid)}

\* INSERT INTO match_participants ...
\*   ON CONFLICT (match_id, region, game_name, tag_line) DO NOTHING
insert_participant(m, k, pid) ==
    IF \E r \in match_participants : r.match_id = m /\ r.key = k
      THEN match_participants
      ELSE match_participants \cup {ParticipantRow(m, k, pid)}

\* ---------------------------------------------------------------- initial state
\* lock rows a crashed earlier run may have left behind (they expire at hour 0)
StaleLocks ==
    {[match_id |-> m, locked_by |-> "apex", expires_at |-> 0,
      by |-> PreviousRun, at |-> 0 - LockTTL] : m \in MatchIds}

LockTables ==
    /\ now = 0
    /\ match_locks \in SUBSET StaleLocks
    /\ matches = {}
    /\ calls = {}
    /\ inserted = [m \in MatchIds |-> 0]
    /\ released = [m \in MatchIds |-> FALSE]

LockInit ==
    /\ LockTables
    /\ pc = [w \in Workers |-> "idle"]
    /\ todo = [w \in Workers |-> MatchIds]
    /\ cur = [w \in Workers |-> 0]
    /\ txStart = [w \in Workers |-> 0]
    /\ sel = [w \in Workers |-> {}]
    /\ reason = [w \in Workers |-> "none"]
    /\ api_calls = [w \in Workers |-> HistoryCalls]
    /\ stats = [w \in Workers |-> NoStats]
    /\ SchedOff
    /\ IdentOff
    /\ LimOff
    /\ RestOff

\* ------------------------------------------------ _collect_single_match steps
\* the record a finished try_acquire call leaves in the history: the caller, the
\* match, who inserted the row its SELECT fetched (-1: no row), whether the SELECT
\* came more than the TTL after that row was acquired, the value returned, and
\* whether the call was the first to reach its INSERT after a release
Call(w, rows, t, ret) ==
    [w |-> w, match_id |-> cur[w],
     sawBy |-> IF rows = {} THEN -1 ELSE (CHOOSE r \in rows : TRUE).by,
     sawOverdue |-> (\E r \in rows : t > r.at + LockTTL),
     ret |-> ret,
     afterRelease |-> released[cur[w]]]

\* the match ids come in the API's recency order: the newest id first
NextMatch(w) == CHOOSE m \in todo[w] : \A k \in todo[w] : k <= m

\* variant: a match another worker holds fails the player's cycle
count_match_strict(st, why) ==
    IF why = "success"
      THEN [st EXCEPT !.matches_collected = @ + 1]
      ELSE [st EXCEPT !.matches_skipped = @ + 1,
                      !.success = (why # "locked_by_other")]

\* if result['collected']: matches_collected += 1, else: matches_skipped += 1
count_match(st, why) ==
    IF why = "success"
      THEN [st EXCEPT !.matches_collected = @ + 1]
      ELSE [st EXCEPT !.matches_skipped = @ + 1]

\* _collect_single_match returns: back in the for loop of collect_player_matches,
\* which counts the match as collected or skipped
Return(w, why) ==
    /\ pc' = [pc EXCEPT ![w] = IF todo[w] \ {cur[w]} = {} THEN "finished" ELSE "idle"]
    /\ todo' = [todo EXCEPT ![w] = @ \ {cur[w]}]
    /\ reason' = [reason EXCEPT ![w] = why]
    /\ stats' = [stats EXCEPT ![w] = count_match(@, why)]
    /\ cur' = [cur EXCEPT ![w] = 0]
    /\ txStart' = [txStart EXCEPT ![w] = 0]
    /\ sel' = [sel EXCEPT ![w] = {}]

\* variant: the existence check is left to insert_match
already_in_db_unchecked(m) == FALSE

\* if match_exists(match_id): result['reason'] = 'already_in_db'
already_in_db(m) == match_exists(m)

\* for match_id in match_ids: _collect_single_match(match_id) up to match_exists
CollectSingleMatch(w) ==
    /\ pc[w] = "idle"
    /\ todo[w] # {}
    /\ IF already_in_db(NextMatch(w))
         THEN /\ pc' = [pc EXCEPT ![w] =
                          IF todo[w] \ {NextMatch(w)} = {} THEN "finished" ELSE "idle"]
              /\ todo' = [todo EXCEPT ![w] = @ \ {NextMatch(w)}]
              /\ reason' = [reason EXCEPT ![w] = "already_in_db"]
              /\ stats' = [stats EXCEPT ![w].matches_skipped = @ + 1]
              /\ UNCHANGED cur
         ELSE /\ pc' = [pc EXCEPT ![w] = "ta_select"]
              /\ cur' = [cur EXCEPT ![w] = NextMatch(w)]
              /\ UNCHANGED <<todo, reason, stats>>
    /\ UNCHANGED <<now, match_locks, matches, txStart, sel, calls, inserted, released,
                   api_calls, match_participants, match_bans>>

\* variant: a row of the caller's own pipeline does not block it (re-entrant lock)
StillLocked_reentrant(w) ==
    \E r \in LockRows(cur[w]) : ~Expired(r, now) /\ r.locked_by # Service(w)

\* try_acquire: the fetched row exists and is not expired
StillLocked(w) == \E r \in LockRows(cur[w]) : ~Expired(r, now)

\* try_acquire: SELECT ... WHERE match_id, then the expiry test on the row
TryAcquireSelect(w) ==
    /\ pc[w] = "ta_select"
    /\ IF StillLocked(w)
         THEN \* still locked: return False, the collector skips the match
              /\ calls' = calls \cup {Call(w, LockRows(cur[w]), now, FALSE)}
              /\ Return(w, "locked_by_other")
         ELSE /\ pc' = [pc EXCEPT ![w] =
                          IF LockRows(cur[w]) = {} THEN "ta_insert" ELSE "ta_delete"]
              /\ sel' = [sel EXCEPT ![w] = LockRows(cur[w])]
              /\ txStart' = [txStart EXCEPT ![w] = now]
              /\ UNCHANGED <<calls, todo, reason, cur, stats>>
    /\ UNCHANGED <<now, match_locks, matches, inserted, released, api_calls,
                   match_participants, match_bans>>

\* try_acquire: DELETE FROM match_locks WHERE match_id (the row was seen expired)
TryAcquireDelete(w) ==
    /\ pc[w] = "ta_delete"
    /\ match_locks' = match_locks \ LockRows(cur[w])
    /\ released' = IF LockRows(cur[w]) = {} THEN released
                   ELSE [released EXCEPT ![cur[w]] = FALSE]
    /\ pc' = [pc EXCEPT ![w] = "ta_insert"]
    /\ UNCHANGED <<now, matches, todo, cur, txStart, sel, reason, calls, inserted,
                   api_calls, stats, match_participants, match_bans>>

\* try_acquire: INSERT ... VALUES (m, service, NOW() + 1 hour)
\*              ON CONFLICT (match_id) DO NOTHING RETURNING match_id
TryAcquireInsert(w) ==
    /\ pc[w] = "ta_insert"
    /\ IF LockRows(cur[w]) = {}
         THEN /\ match_locks' = match_locks \cup
                   {[match_id |-> cur[w], locked_by |-> Service(w),
                     expires_at |-> txStart[w] + LockTTL, by |-> w, at |-> txStart[w]]}
              /\ calls' = calls \cup {Call(w, sel[w], txStart[w], TRUE)}
              /\ released' = [released EXCEPT ![cur[w]] = FALSE]
              /\ pc' = [pc EXCEPT ![w] = "fetch"]
              /\ UNCHANGED <<todo, reason, cur, txStart, sel, stats>>
         ELSE /\ calls' = calls \cup {Call(w, sel[w], txStart[w], FALSE)}
              /\ Return(w, "locked_by_other")
              /\ UNCHANGED <<match_locks, released>>
    /\ UNCHANGED <<now, matches, inserted, api_calls, match_participants, match_bans>>

\* result['api_calls'] when the fetch ends with the given outcome: both requests
\* answered, get_match answered None, or a call raised before it was counted
FetchCalls(outcome) ==
    CASE outcome = "data" -> {2}
      [] outcome = "api_error" -> {1}
      [] outcome = "timeline_error" -> {2}
      [] outcome = "exception" -> {0, 1, 2}

\* variant: the timeline failure path returns without calling release
Fetch_leak(w) ==
    /\ pc[w] = "fetch"
    /\ \/ /\ \E outcome \in {"data", "api_error", "exception"} :
               /\ pc' = [pc EXCEPT ![w] = IF outcome = "data" THEN "insert_match" ELSE "release"]
               /\ reason' = [reason EXCEPT ![w] = IF outcome = "data" THEN @ ELSE outcome]
               /\ \E c \in FetchCalls(outcome) : api_calls' = [api_calls EXCEPT ![w] = @ + c]
          /\ UNCHANGED <<todo, cur, txStart, sel, stats>>
       \/ /\ Return(w, "timeline_error")
          /\ api_calls' = [api_calls EXCEPT ![w] = @ + 2]
    /\ UNCHANGED <<now, match_locks, matches, calls, inserted, released,
                   match_participants, match_bans>>

\* api_client.get_match, api_client.get_timeline, json_handler.save_match: each
\* returns data, returns None, or raises
Fetch(w) ==
    /\ pc[w] = "fetch"
    /\ \E outcome \in {"data", "api_error", "timeline_error", "exception"} :
         /\ pc' = [pc EXCEPT ![w] = IF outcome = "data" THEN "insert_match" ELSE "release"]
         /\ reason' = [reason EXCEPT ![w] = IF outcome = "data" THEN @ ELSE outcome]
         /\ \E c \in FetchCalls(outcome) : api_calls' = [api_calls EXCEPT ![w] = @ + c]
    /\ UNCHANGED <<now, match_locks, matches, todo, cur, txStart, sel, calls,
                   inserted, released, stats, match_participants, match_bans>>

\* variant: ON CONFLICT (match_id) DO UPDATE, the second writer replaces the row
insert_match_upsert(w, m) ==
    /\ matches' = {r \in matches : r.match_id # m} \cup
                     {[match_id |-> m, collected_by |-> Service(w), by |-> w]}
    /\ inserted' = [inserted EXCEPT ![m] = @ + 1]
    /\ UNCHANGED reason

\* INSERT INTO matches ... ON CONFLICT (match_id) DO NOTHING RETURNING match_id
insert_match(w, m) ==
    IF match_exists(m)
      THEN /\ UNCHANGED <<matches, inserted>>
           /\ reason' = [reason EXCEPT ![w] = "db_insert_failed"]
      ELSE /\ matches' = matches \cup {[match_id |-> m, collected_by |-> Service(w), by |-> w]}
           /\ inserted' = [inserted EXCEPT ![m] = @ + 1]
           /\ UNCHANGED reason

\* success = insert_match(...): on True the participants are processed next
InsertMatch(w) ==
    /\ pc[w] = "insert_match"
    /\ insert_match(w, cur[w])
    /\ pc' = [pc EXCEPT ![w] =
                IF inserted'[cur[w]] # inserted[cur[w]] THEN "participants" ELSE "release"]
    /\ UNCHANGED <<now, match_locks, todo, cur, txStart, sel, calls, released,
                   api_calls, stats, match_participants, match_bans>>

\* the participants the data of match m lists
Roster(m) == {ParticipantRow(m, k, k) : k \in Players}

\* participant_stats['api_calls']: no participant needed a lookup, or one needed
\* its Riot ID and its rank
ParticipantCalls == {0, 2}

\* the bans the data of match m lists
BansOf(m) == [i \in 1..NumBans |-> [team_id |-> 100, pick_turn |-> i, champion_id |-> 1]]

\* INSERT INTO match_bans ... ON CONFLICT (match_id, team_id, pick_turn) DO NOTHING
\* for every ban of the match
StoredBans(m) ==
    match_bans \cup
        {[match_id |-> m, team_id |-> BansOf(m)[i].team_id,
          champion_id |-> BansOf(m)[i].champion_id,
          pick_turn |-> BansOf(m)[i].pick_turn] :
             i \in {j \in 1..NumBans :
                      ~\E r \in match_bans : /\ r.match_id = m
                                             /\ r.team_id = BansOf(m)[j].team_id
                                             /\ r.pick_turn = BansOf(m)[j].pick_turn}}

\* process_match_participants(match_data, region) stores the participants of the
\* match (the rows insert_participant does not find stored) and its bans, or
\* raises
ProcessParticipants(w) ==
    /\ pc[w] = "participants"
    /\ \/ /\ match_participants' = match_participants \cup
                 {r \in Roster(cur[w]) : insert_participant(r.match_id, r.key,
                                             r.participant_id) # match_participants}
          /\ match_bans' = StoredBans(cur[w])
          /\ \E c \in ParticipantCalls : api_calls' = [api_calls EXCEPT ![w] = @ + c]
          /\ reason' = [reason EXCEPT ![w] = "success"]
       \/ /\ reason' = [reason EXCEPT ![w] = "exception"]
          /\ UNCHANGED <<match_participants, match_bans, api_calls>>
    /\ pc' = [pc EXCEPT ![w] = "release"]
    /\ UNCHANGED <<now, match_locks, matches, todo, cur, txStart, sel, calls, inserted,
                   released, stats>>

\* variant: release deletes the row only while it has not expired
release_unexpired(m) == match_locks \ {r \in LockRows(m) : ~Expired(r, now)}

\* match_lock.release: DELETE FROM match_locks WHERE match_id
release(m) == match_locks \ LockRows(m)

\* the release call every exit path of _collect_single_match makes, and its return
Release(w) ==
    /\ pc[w] = "release"
    /\ match_locks' = release(cur[w])
    /\ released' = [released EXCEPT ![cur[w]] = TRUE]
    /\ Return(w, reason[w])
    /\ UNCHANGED <<now, matches, calls, inserted, api_calls, match_participants,
                   match_bans>>

\* the worker process dies while it holds a lock; the row stays in the table
Crash(w) ==
    /\ pc[w] \in {"fetch", "insert_match", "participants", "release"}
    /\ pc' = [pc EXCEPT ![w] = "crashed"]
    /\ UNCHANGED <<now, match_locks, matches, todo, cur, txStart, sel, reason,
                   calls, inserted, released, api_calls, stats, match_participants, match_bans>>
    /\ LockFrame

\* cleanup_expired: DELETE FROM match_locks WHERE expires_at < NOW()
CleanupExpired ==
    /\ \E r \in match_locks : Expired(r, now)
    /\ match_locks' = {r \in match_locks : ~Expired(r, now)}
    /\ released' = [m \in MatchIds |->
                      IF \E r \in LockRows(m) : Expired(r, now) THEN FALSE ELSE released[m]]
    /\ UNCHANGED <<now, matches, pc, todo, cur, txStart, sel, reason, calls, inserted,
                   api_calls, stats, match_participants, match_bans>>
    /\ LockFrame

\* an hour passes
Tick ==
    /\ now < MaxTime
    /\ now' = now + 1
    /\ UNCHANGED <<match_locks, matches, pc, todo, cur, txStart, sel, reason,
                   calls, inserted, released, api_calls, stats, match_participants, match_bans>>
    /\ LockFrame

\* the cycle of _collect_single_match, one statement at a time
CollectSteps(w) ==
    \/ CollectSingleMatch(w)
    \/ TryAcquireSelect(w)
    \/ TryAcquireDelete(w)
    \/ TryAcquireInsert(w)
    \/ Fetch(w)
    \/ InsertMatch(w)
    \/ ProcessParticipants(w)
    \/ Release(w)

\* one worker of the network-expansion pipeline (NexusCollector)
NexusCollect(w) == Service(w) = "nexus" /\ CollectSteps(w) /\ LockFrame

\* one worker of the seed pipeline (ApexCollector): the same cycle under the 'apex' tag
ApexCollect(w) == Service(w) = "apex" /\ CollectSteps(w) /\ LockFrame

LockNext ==
    \/ \E w \in Workers : NexusCollect(w)
    \/ \E w \in Workers : ApexCollect(w)
    \/ \E w \in Workers : Crash(w)
    \/ CleanupExpired
    \/ Tick

Spec == LockInit /\ [][LockNext]_lockVars

\* ======================================================================
\* Properties of the match lock and the collection cycle (checked under Spec)
\* ======================================================================

\* w's try_acquire(m) returned True and w has not yet called release(m)
Holder(w, m) ==
    /\ cur[w] = m
    /\ pc[w] \in {"fetch", "insert_match", "participants", "release", "crashed"}

\* C1: No duplicate collection: for every match id at most one insert_match call
\* ever returned True and the matches table holds at most one row for it.
C1_NoDuplicateCollection ==
    \A m \in MatchIds :
        /\ inserted[m] <= 1
        /\ Cardinality({r \in matches : r.match_id = m}) <= 1

\* C1 witness: a second worker reached insert_match for a match already written
\* and was turned away.
C1_Witness ==
    \E w \in Workers, m \in MatchIds :
        /\ reason[w] = "db_insert_failed"
        /\ inserted[m] = 1
        /\ \E r \in matches : r.match_id = m /\ r.by # w

\* C2: Lock mutual exclusion: for every match id, at most one worker holds the
\* lock unexpired (try_acquire returned True less than the TTL ago and release
\* has not been called).
C2_LockMutualExclusion ==
    \A m \in MatchIds :
        Cardinality({w \in Workers : Holder(w, m) /\ now - txStart[w] < LockTTL}) <= 1

\* C3: Of two try_acquire calls that both fetched the same expired row, at most
\* one returns True.
C3_ExpiredRemovalRace ==
    \A c1, c2 \in calls :
        (/\ c1.w # c2.w
         /\ c1.match_id = c2.match_id
         /\ c1.sawBy # -1
         /\ c1.sawBy = c2.sawBy
         /\ c1.sawOverdue
         /\ c2.sawOverdue)
        => ~(c1.ret /\ c2.ret)

\* C4: Lock self-healing: a try_acquire whose SELECT comes more than the TTL after
\* the existing row was acquired returns True, with no release or cleanup_expired
\* needed, unless a competitor other than the old holder acquired the lock meanwhile.
C4_LockSelfHealing ==
    \A c \in calls :
        (c.sawOverdue /\ ~c.ret)
        => \E c2 \in calls :
              /\ c2.match_id = c.match_id
              /\ c2.w # c.w
              /\ c2.w # c.sawBy
              /\ c2.ret

\* C4 witness: the holder crashed without releasing and another worker acquired
\* the same match after the TTL.
C4_Witness ==
    \E c \in calls :
        /\ c.sawOverdue
        /\ c.ret
        /\ c.sawBy \in Workers
        /\ c.sawBy # c.w
        /\ pc[c.sawBy] = "crashed"
        /\ cur[c.sawBy] = c.match_id

\* C5: a try_acquire that finds an unexpired row returns False (the collector
\* records 'locked_by_other') and leaves the lock table unchanged, also when the
\* row carries the caller's own pipeline tag.
C5_LiveLockBlocks ==
    [][\A w \in Workers :
          (/\ pc[w] = "ta_select"
           /\ pc'[w] # "ta_select"
           /\ \E r \in LockRows(cur[w]) : r.expires_at >= now)
          => (/\ match_locks' = match_locks
              /\ pc'[w] \in {"idle", "finished"}
              /\ reason'[w] = "locked_by_other"
              /\ \E c \in calls' \ calls : c.w = w /\ ~c.ret)]_lockVars

\* C5 witness: a worker was turned away by an unexpired row of its own pipeline.
C5_Witness ==
    \E c \in calls, r \in match_locks :
        /\ ~c.ret
        /\ ~c.sawOverdue
        /\ c.sawBy = r.by
        /\ r.match_id = c.match_id
        /\ r.locked_by = Service(c.w)
        /\ r.expires_at >= now

\* C6: after release(m) no lock row for m exists, whoever inserted it and whether
\* or not it had expired, and the next try_acquire(m) to reach its INSERT returns True.
C6_ReleaseUnconditional ==
    /\ \A m \in MatchIds : released[m] => LockRows(m) = {}
    /\ \A c \in calls : c.afterRelease => c.ret

\* C6 witness: a worker of one pipeline released, then a worker of the other
\* pipeline acquired the same match.
C6_Witness ==
    \E c \in calls :
        /\ c.afterRelease
        /\ c.ret
        /\ \E v \in Workers : v # c.w /\ Service(v) # Service(c.w) /\ pc[v] = "finished"

\* C7: whenever _collect_single_match has returned, the lock row the worker
\* inserted is gone; after a run in which every worker finished (none crashed) no
\* lock row acquired during the run remains.
C7_ReleaseOnEveryExit ==
    /\ \A w \in Workers :
          pc[w] \in {"idle", "finished", "ta_select", "ta_delete", "ta_insert"}
          => \A r \in match_locks : r.by # w
    /\ (\A w \in Workers : pc[w] = "finished")
          => \A r \in match_locks : r.by = PreviousRun

\* C7 witness: the run is over, a worker that had acquired the lock left through
\* a failure path, and no lock row of the run is left.
C7_Witness ==
    /\ \A w \in Workers : pc[w] = "finished"
    /\ \E c \in calls :
          /\ c.ret
          /\ reason[c.w] \in {"api_error", "timeline_error", "exception", "db_insert_failed"}
    /\ \A r \in match_locks : r.by = PreviousRun

\* C27: The existence check precedes locking: _collect_single_match on a match
\* already in the store returns 'already_in_db' (counted as skipped) without a
\* try_acquire, without an API call and without touching the lock table.
C27_ExistenceCheckFirst ==
    [][\A w \in Workers :
          (/\ pc[w] = "idle"
           /\ todo[w] # {}
           /\ match_exists(NextMatch(w))
           /\ <<pc[w], todo[w], cur[w]>> # <<pc'[w], todo'[w], cur'[w]>>)
          => (/\ reason'[w] = "already_in_db"
              /\ pc'[w] \in {"idle", "finished"}
              /\ NextMatch(w) \notin todo'[w]
              /\ stats'[w].matches_skipped = stats[w].matches_skipped + 1
              /\ match_locks' = match_locks
              /\ calls' = calls
              /\ api_calls' = api_calls
              /\ matches' = matches)]_lockVars

\* C27 witness: a worker met a stored match whose lock row a crashed holder left
\* behind, and returned 'already_in_db' having made no call beyond the history.
C27_Witness ==
    \E w, v \in Workers :
        /\ reason[w] = "already_in_db"
        /\ api_calls[w] = HistoryCalls
        /\ stats[w].matches_skipped > 0
        /\ pc[v] = "crashed"
        /\ match_exists(cur[v])
        /\ \E r \in LockRows(cur[v]) : r.by = v

\* C28: A NEXUS worker calls insert_match only after its own try_acquire returned
\* True, before its release and while that lock has not expired; an insert_match
\* that finds the row present writes nothing and no participants are processed.
C28_InsertUnderOwnLock ==
    [][\A w \in Workers :
          (/\ Service(w) = "nexus"
           /\ pc[w] = "insert_match"
           /\ pc'[w] \in {"participants", "release"})
          => (/\ \E c \in calls : c.w = w /\ c.match_id = cur[w] /\ c.ret
              /\ now <= txStart[w] + LockTTL
              /\ match_exists(cur[w])
                    => /\ matches' = matches
                       /\ match_participants' = match_participants
                       /\ reason'[w] = "db_insert_failed"
                       /\ pc'[w] = "release")]_lockVars

\* ======================================================================
\* Scheduling: the collection queues of the pipeline runners and the
\* tier-cascading queue of the per-region collector
\* ======================================================================

\* Tier priority order (highest to lowest)
TIER_ORDER == <<"CHALLENGER", "GRANDMASTER", "MASTER", "DIAMOND", "EMERALD",
                "PLATINUM", "GOLD", "SILVER", "BRONZE", "IRON">>

\* days until the next check of a player of tier t: TIER_INTERVALS.get(tier, 14)
TIER_INTERVALS(t) ==
    CASE t = "CHALLENGER" -> 2
      [] t = "GRANDMASTER" -> 3
      [] t = "MASTER" -> 4
      [] t = "DIAMOND" -> 5
      [] t = "EMERALD" -> 7
      [] t = "PLATINUM" -> 10
      [] OTHER -> 14

\* timedelta(days=...) in the hours the clock counts
DayHours == 24

\* tiers and next-check times of the players the tables start with
InitTiers == {"CHALLENGER", "MASTER", "IRON", "UNKNOWN"}
InitChecks == {0, 1}

\* the queue a player is put in, and with which priority
QueueType(t) == IF t \in {"CHALLENGER", "GRANDMASTER"} THEN "apex" ELSE "nexus"
Priority(t) == IF t = "CHALLENGER" THEN SeedPriority ELSE NexusPriority

\* the row add_to_queue inserts for player p, due from next_check on
QueueRow(p, t, next_check) ==
    [player |-> p, queue_type |-> QueueType(t), priority |-> Priority(t),
     status |-> "pending", next_check |-> next_check, attempts |-> 0,
     last_error |-> NullText]

Key(e) == [player |-> e.player, queue_type |-> e.queue_type]

\* Either the per-region collectors run on the players table, or the region
\* threads of two pipeline runners run on collection_queues.
SchedInit ==
    /\ now = 0
    /\ LockOff
    /\ IdentOff
    /\ LimOff
    /\ RestOff
    /\ \E known \in SUBSET Players :
          \E check \in [known -> InitChecks] :
             /\ tier \in [Players -> InitTiers]
             /\ \A p \in Players \ known : tier[p] = "UNKNOWN"
             /\ \/ /\ nca = check
                   /\ lpc = [r \in Regions |-> "select"]
                   /\ queue = {}
                   /\ qpc = [t \in QThreads |-> "stopped"]
                \/ /\ \A p \in known : tier[p] # "UNKNOWN"
                   /\ queue = {QueueRow(p, tier[p], check[p]) : p \in known}
                   /\ qpc = [t \in QThreads |-> "poll"]
                   /\ nca = [p \in {} |-> 0]
                   /\ lpc = [r \in Regions |-> "stopped"]
    /\ taken = [t \in QThreads |-> NoEntry]
    /\ empties = [t \in QThreads |-> 0]
    /\ lsel = [r \in Regions |-> NoPlayer]
    /\ should_stop = FALSE
    /\ shutdown_event = FALSE
    /\ errors = 0

\* ------------------------------------------------------- collection_queues

\* the rows SELECT ... ORDER BY priority DESC, next_check ASC LIMIT 1 can return
get_next_from_queue(queue_type) ==
    LET due == {e \in queue : /\ e.queue_type = queue_type
                              /\ e.next_check <= now
                              /\ e.status = "pending"}
    IN {e \in due : \A f \in due : \/ f.priority < e.priority
                                   \/ /\ f.priority = e.priority
                                      /\ f.next_check >= e.next_check}

mark_queue_processing(k) ==
    {IF Key(e) = k THEN [e EXCEPT !.status = "processing"]
     ELSE e : e \in queue}

\* variant: the entry is reset but its last_error is kept
mark_queue_complete_keeping(k) ==
    {IF Key(e) = k THEN [e EXCEPT !.status = "pending",
                                  !.next_check = now + CompleteDelay,
                                  !.attempts = 0]
     ELSE e : e \in queue}

mark_queue_complete(k) ==
    {IF Key(e) = k THEN [e EXCEPT !.status = "pending",
                                  !.next_check = now + CompleteDelay,
                                  !.attempts = 0,
                                  !.last_error = NullText]
     ELSE e : e \in queue}

\* variant: the entry is rescheduled but its status is left as it is
mark_queue_error_stuck(k, error_message) ==
    {IF Key(e) = k THEN [e EXCEPT !.attempts = e.attempts + 1,
                                  !.next_check = now + ErrorDelay,
                                  !.last_error = error_message]
     ELSE e : e \in queue}

mark_queue_error(k, error_message) ==
    {IF Key(e) = k THEN [e EXCEPT !.status = "pending",
                                  !.attempts = e.attempts + 1,
                                  !.next_check = now + ErrorDelay,
                                  !.last_error = error_message]
     ELSE e : e \in queue}

\* cursor.rowcount > 0 of the UPDATE of mark_queue_complete and mark_queue_error
mark_queue_returns(k) == \E e \in queue : Key(e) = k

\* ------------------------------------------------ process_region, one thread

\* variant: the thread goes on with service = 'apex' whichever queue answered
TakeAsApex(t, e) ==
    /\ empties' = [empties EXCEPT ![t] = 0]
    /\ IF PRegion(e.player) # TRegion(t)
       THEN /\ qpc' = [qpc EXCEPT ![t] = "poll"]
            /\ UNCHANGED taken
       ELSE /\ qpc' = [qpc EXCEPT ![t] = "mark"]
            /\ taken' = [taken EXCEPT ![t] = [player |-> e.player, queue_type |-> "apex"]]
    /\ UNCHANGED <<now, tier, queue, nca, lpc, lsel>>

\* variant: consecutive_empty_checks is not reset when a poll returns an entry
TakeKeepingCount(t, e) ==
    /\ IF PRegion(e.player) # TRegion(t)
       THEN /\ qpc' = [qpc EXCEPT ![t] = "poll"]
            /\ UNCHANGED taken
       ELSE /\ qpc' = [qpc EXCEPT ![t] = "mark"]
            /\ taken' = [taken EXCEPT ![t] = Key(e)]
    /\ UNCHANGED <<now, tier, queue, nca, lpc, lsel, empties>>

\* players[0] was returned: skip a player of another region, else work on it
Take(t, e) ==
    /\ empties' = [empties EXCEPT ![t] = 0]
    /\ IF PRegion(e.player) # TRegion(t)
       THEN /\ qpc' = [qpc EXCEPT ![t] = "poll"]
            /\ UNCHANGED taken
       ELSE /\ qpc' = [qpc EXCEPT ![t] = "mark"]
            /\ taken' = [taken EXCEPT ![t] = Key(e)]
    /\ UNCHANGED <<now, tier, queue, nca, lpc, lsel>>

\* --hours of the runner's command line (default 2.0)
DurationHours == 2

\* self.end_time = datetime.now() + timedelta(hours=duration_hours), at hour 0
end_time == DurationHours

\* while datetime.now() < self.end_time and not self.should_stop
\*       and not self.shutdown_handler.should_stop()
KeepRunning == now < end_time /\ ~should_stop

\* the loop condition holds: try APEX first
PollApex(t) ==
    /\ qpc[t] = "poll"
    /\ KeepRunning
    /\ IF get_next_from_queue("apex") = {}
       THEN /\ qpc' = [qpc EXCEPT ![t] = "poll_nexus"]
            /\ UNCHANGED <<now, tier, queue, taken, empties, nca, lpc, lsel>>
       ELSE \E e \in get_next_from_queue("apex") : Take(t, e)
    /\ SchedFrame /\ StatsFrame

\* Fallback to NEXUS if APEX is empty; count the empty check, retire at the limit
PollNexus(t) ==
    /\ qpc[t] = "poll_nexus"
    /\ IF get_next_from_queue("nexus") = {}
       THEN /\ empties' = [empties EXCEPT ![t] = empties[t] + 1]
            /\ qpc' = [qpc EXCEPT ![t] = IF empties[t] + 1 >= EmptyLimit
                                         THEN "stopped" ELSE "poll"]
            /\ UNCHANGED <<now, tier, queue, taken, nca, lpc, lsel>>
       ELSE \E e \in get_next_from_queue("nexus") : Take(t, e)
    /\ SchedFrame /\ StatsFrame

MarkProcessing(t) ==
    /\ qpc[t] = "mark"
    /\ queue' = mark_queue_processing(taken[t])
    /\ qpc' = [qpc EXCEPT ![t] = "collect"]
    /\ UNCHANGED <<now, tier, taken, empties, nca, lpc, lsel>>
    /\ SchedFrame /\ StatsFrame

\* collect_player_matches returns stats or raises; the entry goes back to pending
CollectPlayer(t) ==
    /\ qpc[t] = "collect"
    /\ \E outcome \in {"success", "failed", "exception"} :
          IF outcome = "success"
          THEN queue' = mark_queue_complete(taken[t]) /\ UNCHANGED errors
          ELSE queue' = mark_queue_error(taken[t], UnknownError) /\ errors' = errors + 1
    /\ qpc' = [qpc EXCEPT ![t] = "poll"]
    /\ taken' = [taken EXCEPT ![t] = NoEntry]
    /\ UNCHANGED <<now, tier, empties, nca, lpc, lsel, should_stop, shutdown_event>>
    /\ SchedFrame

\* the loop condition fails: the run deadline passed or a stop was requested
StopThread(t) ==
    /\ qpc[t] = "poll"
    /\ ~KeepRunning
    /\ qpc' = [qpc EXCEPT ![t] = "stopped"]
    /\ UNCHANGED <<now, tier, queue, taken, empties, nca, lpc, lsel>>
    /\ SchedFrame /\ StatsFrame

\* ------------------------------------------------------------ QueueManager

InRegion(r) == {p \in DOMAIN nca : PRegion(p) = r}

\* ORDER BY next_check_after ASC LIMIT 1 over the rows S
Oldest(S) == {p \in S : \A q \in S : nca[q] >= nca[p]}

\* the rows the loop over TIER_ORDER can return, trying the tiers from the i-th on
RECURSIVE Cascade(_, _)
Cascade(r, i) ==
    IF i > Len(TIER_ORDER) THEN {}
    ELSE LET found == Oldest({p \in InRegion(r) : /\ nca[p] < now
                                                  /\ tier[p] = TIER_ORDER[i]})
         IN IF found # {} THEN found ELSE Cascade(r, i + 1)

\* one ORDER BY over the due players of all tiers
get_next_player_global(r) ==
    Oldest({p \in InRegion(r) : nca[p] < now /\ \E i \in DOMAIN TIER_ORDER : tier[p] = TIER_ORDER[i]})

get_next_player(r) == Cascade(r, 1)

\* the oldest player, but only when it is due
get_oldest_checked_player_due(r) == Oldest({p \in InRegion(r) : nca[p] < now})

get_oldest_checked_player(r) == Oldest(InRegion(r))

update_player_checked(p) == [nca EXCEPT ![p] = now + DayHours * TIER_INTERVALS(tier[p])]

boost_player_priority(p) == [nca EXCEPT ![p] = now + BoostDelay]

\* --------------------------------------- CollectorService.run, one region

\* Get next player to check; no one due - get oldest checked player; none - sleep
SelectPlayer(r) ==
    /\ lpc[r] = "select"
    /\ ~shutdown_event
    /\ IF get_next_player(r) # {}
       THEN /\ \E p \in get_next_player(r) :
                  lsel' = [lsel EXCEPT ![r] = [player |-> p, fallback |-> FALSE]]
            /\ lpc' = [lpc EXCEPT ![r] = "collect"]
       ELSE IF get_oldest_checked_player(r) # {}
       THEN /\ \E p \in get_oldest_checked_player(r) :
                  lsel' = [lsel EXCEPT ![r] = [player |-> p, fallback |-> TRUE]]
            /\ lpc' = [lpc EXCEPT ![r] = "collect"]
       ELSE /\ lpc' = [lpc EXCEPT ![r] = "sleep"]
            /\ UNCHANGED lsel
    /\ UNCHANGED <<now, tier, queue, qpc, taken, empties, nca>>
    /\ SchedFrame /\ StatsFrame

\* time.sleep(10) is over
WakeUp(r) ==
    /\ lpc[r] = "sleep"
    /\ lpc' = [lpc EXCEPT ![r] = "select"]
    /\ UNCHANGED <<now, tier, queue, qpc, taken, empties, nca, lsel>>
    /\ SchedFrame /\ StatsFrame

\* the new matches are collected and the player is rescheduled, sooner if very
\* active; an exception leaves the player as it was
CheckPlayer(r) ==
    /\ lpc[r] = "collect"
    /\ \E outcome \in {"checked", "very_active", "exception"} :
          nca' = CASE outcome = "checked" -> update_player_checked(lsel[r].player)
                   [] outcome = "very_active" -> boost_player_priority(lsel[r].player)
                   [] OTHER -> nca
    /\ lpc' = [lpc EXCEPT ![r] = "select"]
    /\ lsel' = [lsel EXCEPT ![r] = NoPlayer]
    /\ UNCHANGED <<now, tier, queue, qpc, taken, empties>>
    /\ SchedFrame /\ StatsFrame

\* shutdown_event is set: the loop ends at its top or at a break
StopCollector(r) ==
    /\ shutdown_event
    /\ lpc[r] \in {"select", "sleep", "collect"}
    /\ lpc' = [lpc EXCEPT ![r] = "stopped"]
    /\ lsel' = [lsel EXCEPT ![r] = NoPlayer]
    /\ UNCHANGED <<now, tier, queue, qpc, taken, empties, nca>>
    /\ SchedFrame /\ StatsFrame

\* GracefulShutdown._signal_handler on the first SIGINT or SIGTERM of a run:
\* shutdown_requested = True, and the callback _on_shutdown sets should_stop
RequestShutdown ==
    /\ ~should_stop
    /\ \E t \in QThreads : qpc[t] # "stopped"
    /\ should_stop' = TRUE
    /\ UNCHANGED <<now, tier, queue, qpc, taken, empties, nca, lpc, lsel,
                   shutdown_event, errors>>
    /\ SchedFrame

\* the signal handler of the per-region collector service sets shutdown_event
SetShutdownEvent ==
    /\ ~shutdown_event
    /\ \E r \in Regions : lpc[r] # "stopped"
    /\ shutdown_event' = TRUE
    /\ UNCHANGED <<now, tier, queue, qpc, taken, empties, nca, lpc, lsel,
                   should_stop, errors>>
    /\ SchedFrame

\* an hour passes
SchedTick ==
    /\ now < MaxTime
    /\ now' = now + 1
    /\ UNCHANGED <<tier, queue, qpc, taken, empties, nca, lpc, lsel>>
    /\ SchedFrame /\ StatsFrame

SchedNext ==
    \/ \E t \in QThreads : PollApex(t)
    \/ \E t \in QThreads : PollNexus(t)
    \/ \E t \in QThreads : MarkProcessing(t)
    \/ \E t \in QThreads : CollectPlayer(t)
    \/ \E t \in QThreads : StopThread(t)
    \/ \E r \in Regions : SelectPlayer(r)
    \/ \E r \in Regions : WakeUp(r)
    \/ \E r \in Regions : CheckPlayer(r)
    \/ \E r \in Regions : StopCollector(r)
    \/ RequestShutdown
    \/ SetShutdownEvent
    \/ SchedTick

SchedSpec == SchedInit /\ [][SchedNext]_schedVars

\* ======================================================================
\* Properties of scheduling (checked under SchedSpec)
\* ======================================================================

\* place of tier t in the fixed tier order, 1 the highest; a tier outside the
\* order ranks after all of them
TierRank(t) ==
    IF \E i \in DOMAIN TIER_ORDER : TIER_ORDER[i] = t
    THEN CHOOSE i \in DOMAIN TIER_ORDER : TIER_ORDER[i] = t
    ELSE Len(TIER_ORDER) + 1

\* the queue row with key k
Entry(k) == CHOOSE e \in queue : Key(e) = k

\* C8: Queue rows are single-writer-at-a-time: at any time at most one region
\* thread, of any runner, is collecting for a given queue entry (player,
\* pipeline) that it took from get_next_from_queue and marked 'processing'.
C8_SingleWriter ==
    \A t1, t2 \in QThreads :
        (t1 # t2 /\ qpc[t1] = "collect" /\ qpc[t2] = "collect") => taken[t1] # taken[t2]

\* this step is get_next_player or get_oldest_checked_player of region r
\* returning a player
Selects(r) == lpc[r] = "select" /\ lpc'[r] = "collect"

\* the players of region r that are due and whose tier is in the tier order
DueRanked(r) ==
    {p \in InRegion(r) : nca[p] < now /\ TierRank(tier[p]) <= Len(TIER_ORDER)}

\* the selection of region r takes the earliest due player of the highest tier
\* that has a due player
CascadeOrder(r) ==
    (Selects(r) /\ DueRanked(r) # {}) =>
        /\ lsel'[r].player \in DueRanked(r)
        /\ ~lsel'[r].fallback
        /\ \A q \in DueRanked(r) :
              \/ TierRank(tier[q]) > TierRank(tier[lsel'[r].player])
              \/ /\ tier[q] = tier[lsel'[r].player]
                 /\ nca[q] >= nca[lsel'[r].player]

\* this step is get_next_from_queue handing thread t an entry of its region
Dequeues(t) == qpc[t] \in {"poll", "poll_nexus"} /\ qpc'[t] = "mark"

\* the entry thread t dequeues is the earliest due one of the highest tier that
\* has a due pending entry in t's region
QueueCascadeOrder(t) ==
    Dequeues(t) =>
        \A e \in queue :
            (e.status = "pending" /\ e.next_check <= now /\ PRegion(e.player) = TRegion(t)) =>
                \/ TierRank(tier[e.player]) > TierRank(tier[taken'[t].player])
                \/ /\ tier[e.player] = tier[taken'[t].player]
                   /\ e.next_check >= Entry(taken'[t]).next_check

NoneDue(r) == \A p \in InRegion(r) : ~(nca[p] < now)

\* when nothing is due in a region that has players, the collector's selection
\* returns the player with the smallest next_check_after instead of sleeping
FallbackSelects(r) ==
    (lpc[r] = "select" /\ lpc'[r] \in {"collect", "sleep"} /\ NoneDue(r) /\ InRegion(r) # {}) =>
        /\ lpc'[r] = "collect"
        /\ lsel'[r].fallback
        /\ lsel'[r].player \in InRegion(r)
        /\ \A q \in InRegion(r) : nca[q] >= nca[lsel'[r].player]

\* this step is an empty check of thread t: both queues returned nothing
IdlePoll(t) == qpc[t] = "poll_nexus" /\ empties'[t] = empties[t] + 1

\* a region thread has an empty check only when its region has no pending entry
NeverIdlePoll(t) ==
    IdlePoll(t) => ~\E e \in queue : e.status = "pending" /\ PRegion(e.player) = TRegion(t)

LeagueTiers == {"GRANDMASTER", "MASTER"}

\* priority of a high-elo player the NEXUS pipeline discovers
DiscoveredApexPriority == 8

PlayerRow(k, a, n, t, by, seed) ==
    [key |-> k, apex_puuid |-> a, nexus_puuid |-> n, tier |-> t,
     discovered_by |-> by, is_seed_player |-> seed]

\* rows the APEX pipeline discovered earlier: only the APEX identifier is known
ApexDiscovered == {PlayerRow(k, k, NULL, "MASTER", "apex", FALSE) : k \in Players}

IdentInit ==
    /\ now = 0
    /\ LockOff
    /\ SchedOff
    /\ LimOff
    /\ RestOff
    /\ players \in SUBSET ApexDiscovered
    /\ spc = 0
    /\ ppc = [w \in Workers |-> "idle"]
    /\ plocal = [w \in Workers |-> NoParticipant]
    /\ rlocal = [r \in Resolvers |-> NoResolution]
    /\ last_add = NoAdd

\* what the identity steps leave alone
IdentRest ==
    /\ UNCHANGED <<now, match_locks, matches, pc, todo, cur, txStart, sel, reason, calls,
                   inserted, released, api_calls, stats, tier, qpc, taken, empties,
                   nca, lpc, lsel>>
    /\ StatsFrame
    /\ LimFrame
    /\ RestFrame

\* ------------------------------------------------------------ players table

\* SELECT * FROM players WHERE (region, game_name, tag_line) = k
get_player(k) == {r \in players : r.key = k}

\* SELECT * FROM players WHERE nexus_puuid = n
get_player_by_puuid(n) == {r \in players : r.nexus_puuid = n}

\* variant: INSERT without ON CONFLICT DO NOTHING
insert_player_blind(row) == players \cup {row}

\* INSERT ... ON CONFLICT (region, game_name, tag_line) DO NOTHING
insert_player(row) == IF get_player(row.key) = {} THEN players \cup {row} ELSE players

\* variant: the identifier is stored on a row of its own
update_nexus_puuid_insert(k, n) ==
    players \cup {PlayerRow(k, NULL, n, "MASTER", "nexus", FALSE)}

\* variant: the update also claims the row for the NEXUS pipeline
update_nexus_puuid_claiming(k, n) ==
    {IF r.key = k THEN [r EXCEPT !.nexus_puuid = n, !.discovered_by = "nexus"] ELSE r :
        r \in players}

\* UPDATE players SET nexus_puuid = n WHERE (region, game_name, tag_line) = k
update_nexus_puuid(k, n) ==
    {IF r.key = k THEN [r EXCEPT !.nexus_puuid = n] ELSE r : r \in players}

\* UPDATE players SET tier = t, ... WHERE (region, game_name, tag_line) = k
update_rank_data(k, t) ==
    {IF r.key = k THEN [r EXCEPT !.tier = t] ELSE r : r \in players}

\* the rows that need NEXUS PUUID resolution
get_players_without_nexus_puuid ==
    {r \in players : /\ r.apex_puuid # NULL
                     /\ r.nexus_puuid = NULL
                     /\ r.tier \notin {"CHALLENGER", "GRANDMASTER"}}

\* ------------------------------------------------------------ add_to_queue

QueueKey(k, queue_type) == [player |-> k, queue_type |-> queue_type]

NewEntry(k, queue_type, priority) ==
    [player |-> k, queue_type |-> queue_type, priority |-> priority,
     status |-> "pending", next_check |-> now, attempts |-> 0,
     last_error |-> NullText]

\* variant: ON CONFLICT ... DO UPDATE SET priority
add_to_queue_upsert(k, queue_type, priority) ==
    {IF Key(e) = QueueKey(k, queue_type) THEN [e EXCEPT !.priority = priority] ELSE e :
        e \in queue} \cup
    (IF \E e \in queue : Key(e) = QueueKey(k, queue_type) THEN {}
     ELSE {NewEntry(k, queue_type, priority)})

\* INSERT ... ON CONFLICT (region, game_name, tag_line, queue_type) DO NOTHING
add_to_queue(k, queue_type, priority) ==
    IF \E e \in queue : Key(e) = QueueKey(k, queue_type) THEN queue
    ELSE queue \cup {NewEntry(k, queue_type, priority)}

\* RETURNING region: cursor.fetchone() is not None
add_to_queue_returns(k, queue_type) == ~\E e \in queue : Key(e) = QueueKey(k, queue_type)

\* one call of add_to_queue and the record of it
AddToQueue(k, queue_type, priority) ==
    /\ queue' = add_to_queue(k, queue_type, priority)
    /\ last_add' = [key |-> k, queue_type |-> queue_type,
                    ret |-> add_to_queue_returns(k, queue_type)]

\* ------------------------------------------- ApexSeeder._process_league_entries

\* insert_player of a Challenger entry; the entry is enqueued only if inserted
SeedInsert(k) ==
    /\ spc = 0
    /\ players' = insert_player(PlayerRow(k, k, NULL, "CHALLENGER", "apex", TRUE))
    /\ spc' = IF get_player(k) = {} THEN k ELSE 0
    /\ UNCHANGED <<queue, ppc, plocal, rpc, rlocal, last_add>>
    /\ IdentRest

SeedEnqueue ==
    /\ spc # 0
    /\ AddToQueue(spc, "apex", SeedPriority)
    /\ spc' = 0
    /\ UNCHANGED <<players, ppc, plocal, rpc, rlocal>>
    /\ IdentRest

\* ------------------------- NexusPlayerProcessor._process_single_participant

\* a participant with NEXUS puuid n: known by puuid - done; else ask for its Riot ID
ProcStart(w) ==
    /\ ppc[w] = "idle"
    /\ \E n \in Puuids :
          /\ get_player_by_puuid(n) = {}
          /\ plocal' = [plocal EXCEPT ![w] = [puuid |-> n, key |-> 0, tier |-> "NONE"]]
    /\ ppc' = [ppc EXCEPT ![w] = "resolve"]
    /\ UNCHANGED <<queue, players, spc, rpc, rlocal, last_add>>
    /\ IdentRest

\* get_account_by_puuid answers with a Riot ID or fails; then get_player by Riot ID
ProcLookup(w) ==
    /\ ppc[w] = "resolve"
    /\ \/ /\ ppc' = [ppc EXCEPT ![w] = "idle"]
          /\ plocal' = [plocal EXCEPT ![w] = NoParticipant]
       \/ \E k \in Players :
             /\ plocal' = [plocal EXCEPT ![w].key = k]
             /\ ppc' = [ppc EXCEPT ![w] = IF get_player(k) # {} THEN "merge" ELSE "new"]
    /\ UNCHANGED <<queue, players, spc, rpc, rlocal, last_add>>
    /\ IdentRest

\* the other key added this player: update our PUUID on the existing record
ProcMerge(w) ==
    /\ ppc[w] = "merge"
    /\ players' = update_nexus_puuid(plocal[w].key, plocal[w].puuid)
    /\ ppc' = [ppc EXCEPT ![w] = "rank"]
    /\ UNCHANGED <<queue, spc, plocal, rpc, rlocal, last_add>>
    /\ IdentRest

\* get updated rank data, if the league lookup has a solo-queue entry
ProcRank(w) ==
    /\ ppc[w] = "rank"
    /\ \/ UNCHANGED players
       \/ \E t \in LeagueTiers : players' = update_rank_data(plocal[w].key, t)
    /\ ppc' = [ppc EXCEPT ![w] = "idle"]
    /\ plocal' = [plocal EXCEPT ![w] = NoParticipant]
    /\ UNCHANGED <<queue, spc, rpc, rlocal, last_add>>
    /\ IdentRest

\* truly new player: get rank and insert
ProcInsert(w) ==
    /\ ppc[w] = "new"
    /\ \E t \in LeagueTiers :
          /\ players' = insert_player(PlayerRow(plocal[w].key, NULL, plocal[w].puuid,
                                                t, "nexus", FALSE))
          /\ plocal' = [plocal EXCEPT ![w].tier = t]
    /\ ppc' = [ppc EXCEPT ![w] = "enqueue"]
    /\ UNCHANGED <<queue, spc, rpc, rlocal, last_add>>
    /\ IdentRest

\* add to the appropriate queue based on tier
ProcEnqueue(w) ==
    /\ ppc[w] = "enqueue"
    /\ IF plocal[w].tier \in {"CHALLENGER", "GRANDMASTER"}
       THEN AddToQueue(plocal[w].key, "apex", DiscoveredApexPriority)
       ELSE AddToQueue(plocal[w].key, "nexus", NexusPriority)
    /\ ppc' = [ppc EXCEPT ![w] = "idle"]
    /\ plocal' = [plocal EXCEPT ![w] = NoParticipant]
    /\ UNCHANGED <<players, spc, rpc, rlocal>>
    /\ IdentRest

\* ------------- NexusPUUIDResolver._resolve_single_player, NexusActivator._resolve_puuid

\* the resolver takes a player that needs NEXUS PUUID resolution
ResolvePick(r) ==
    /\ rpc[r] \in {"idle", "done"}
    /\ \E row \in get_players_without_nexus_puuid :
          rlocal' = [rlocal EXCEPT ![r] = row.key]
    /\ rpc' = [rpc EXCEPT ![r] = "lookup"]
    /\ UNCHANGED <<queue, players, spc, ppc, plocal, last_add>>
    /\ IdentRest

\* get_account_by_riot_id answers with a puuid or fails; a puuid is stored
ResolveUpdate(r) ==
    /\ rpc[r] = "lookup"
    /\ \/ /\ UNCHANGED players
          /\ rlocal' = [rlocal EXCEPT ![r] = NoResolution]
          /\ rpc' = [rpc EXCEPT ![r] = "idle"]
       \/ /\ \E n \in Puuids : players' = update_nexus_puuid(rlocal[r], n)
          /\ rpc' = [rpc EXCEPT ![r] = "done"]
          /\ UNCHANGED rlocal
    /\ UNCHANGED <<queue, spc, ppc, plocal, last_add>>
    /\ IdentRest

\* discovery: the seeder and the participant workers run, nothing is resolved
DiscoveryInit == IdentInit /\ rpc = [r \in Resolvers |-> "off"]

DiscoveryNext ==
    \/ \E k \in Players : SeedInsert(k)
    \/ SeedEnqueue
    \/ \E w \in Workers : ProcStart(w)
    \/ \E w \in Workers : ProcLookup(w)
    \/ \E w \in Workers : ProcMerge(w)
    \/ \E w \in Workers : ProcRank(w)
    \/ \E w \in Workers : ProcInsert(w)
    \/ \E w \in Workers : ProcEnqueue(w)

DiscoverySpec == DiscoveryInit /\ [][DiscoveryNext]_identVars

\* resolution: the two resolvers and the participant workers run after seeding
ResolveInit == IdentInit /\ rpc = [r \in Resolvers |-> "idle"]

ResolveNext ==
    \/ \E w \in Workers : ProcStart(w)
    \/ \E w \in Workers : ProcLookup(w)
    \/ \E w \in Workers : ProcMerge(w)
    \/ \E w \in Workers : ProcRank(w)
    \/ \E w \in Workers : ProcInsert(w)
    \/ \E w \in Workers : ProcEnqueue(w)
    \/ \E r \in Resolvers : ResolvePick(r)
    \/ \E r \in Resolvers : ResolveUpdate(r)

ResolveSpec == ResolveInit /\ [][ResolveNext]_identVars

\* ======================================================================
\* Properties of identity (C11, C14, C15 checked under DiscoverySpec; C12 and
\* C13 under ResolveSpec)
\* ======================================================================

QueueKeysUnique == \A e1, e2 \in queue : Key(e1) = Key(e2) => e1 = e2

NaturalKeyUnique == \A r1, r2 \in players : r1.key = r2.key => r1 = r2

\* this step is a call of add_to_queue, by the seeder or by a worker
Adds ==
    \/ spc # 0 /\ spc' = 0
    \/ \E w \in Workers : ppc[w] = "enqueue" /\ ppc'[w] = "idle"

\* a call that returns True created exactly the entry asked for; a call that
\* returns False found the entry and changed nothing
AddEffect ==
    Adds =>
        LET k == QueueKey(last_add'.key, last_add'.queue_type)
        IN IF last_add'.ret
           THEN /\ ~\E e \in queue : Key(e) = k
                /\ queue \subseteq queue'
                /\ \E e \in queue' : Key(e) = k /\ queue' = queue \cup {e}
           ELSE /\ \E e \in queue : Key(e) = k
                /\ queue' = queue

\* C11: After any interleaving of add_to_queue calls of the seeder and the
\* discovery there is at most one queue entry per (player, queue_type);
\* add_to_queue returns True only when it created the entry, and returns False
\* leaving the existing entry's priority, status, attempts and next_check as
\* they were when the entry already exists.
C11_QueueEntryUnique == []QueueKeysUnique /\ [][AddEffect]_identVars

\* C11 witness: add_to_queue returned False on an entry that the seeder had
\* created with its own priority.
C11_Witness ==
    /\ last_add.key # 0
    /\ ~last_add.ret
    /\ \E e \in queue : /\ Key(e) = QueueKey(last_add.key, last_add.queue_type)
                        /\ e.priority = SeedPriority
    /\ \E r \in players : r.key = last_add.key /\ r.is_seed_player

\* C12: Either scoped identifier of a player, once set to a non-null value, is
\* never changed afterwards.
C12_IdentifiersImmutable ==
    [][\A r \in players : \A r2 \in players' :
          r2.key = r.key =>
             /\ r.nexus_puuid # NULL => r2.nexus_puuid = r.nexus_puuid
             /\ r.apex_puuid # NULL => r2.apex_puuid = r.apex_puuid]_identVars

\* C13: Idempotent merge: when two resolutions of the same player's missing
\* NEXUS identifier have both stored their result, in any interleaving of
\* their lookup and update steps, the player has exactly one row and that row
\* holds a non-null NEXUS identifier.
C13_IdempotentMerge ==
    \A r1, r2 \in Resolvers :
        (r1 # r2 /\ rpc[r1] = "done" /\ rpc[r2] = "done" /\ rlocal[r1] = rlocal[r2]) =>
            /\ Cardinality(get_player(rlocal[r1])) = 1
            /\ \A r \in get_player(rlocal[r1]) : r.nexus_puuid # NULL

\* C13 witness: the resolver and the activator have both resolved the same player.
C13_Witness ==
    /\ rpc["resolver"] = "done"
    /\ rpc["activator"] = "done"
    /\ rlocal["resolver"] = rlocal["activator"]
    /\ \E r \in get_player(rlocal["resolver"]) : r.nexus_puuid # NULL /\ r.apex_puuid # NULL

\* this step is insert_player of worker w for a natural key that has a row
InsertsKnown(w) ==
    ppc[w] = "new" /\ ppc'[w] = "enqueue" /\ get_player(plocal[w].key) # {}

\* C14: The natural key is unique under concurrent discovery: when two workers
\* meet the same unknown participant (both find no row, both call
\* insert_player and add_to_queue), one player row exists afterwards, the
\* second insert changes nothing on it, and there is at most one queue entry
\* per (player, queue_type).
C14_NaturalKeyUnique ==
    /\ [](NaturalKeyUnique /\ QueueKeysUnique)
    /\ [][\A w \in Workers : InsertsKnown(w) => players' = players]_identVars

\* C14 witness: two workers found no row for the same natural key and both
\* have called insert_player.
C14_Witness ==
    \E w1, w2 \in Workers :
        /\ w1 # w2
        /\ ppc[w1] = "enqueue" /\ ppc[w2] = "enqueue"
        /\ plocal[w1].key = plocal[w2].key
        /\ plocal[w1].puuid # plocal[w2].puuid
        /\ Cardinality(get_player(plocal[w1].key)) = 1

\* the rows keep their natural key, APEX identifier and provenance, no row is
\* added or removed and the queue is as it was
KeepsRows ==
    /\ queue' = queue
    /\ Cardinality(players') = Cardinality(players)
    /\ \A r \in players : \E r2 \in players' :
          /\ r2.key = r.key
          /\ r2.apex_puuid = r.apex_puuid
          /\ r2.discovered_by = r.discovered_by
          /\ r2.is_seed_player = r.is_seed_player

\* worker w merges into a row whose NEXUS identifier is missing
Merges(w) ==
    /\ ppc[w] = "merge" /\ ppc'[w] = "rank"
    /\ \E r \in get_player(plocal[w].key) : r.nexus_puuid = NULL

\* C15: When the participant processor meets a participant whose NEXUS
\* identifier is unknown but whose natural key has a player row, it sets the
\* missing NEXUS identifier on that row: no player row and no queue entry is
\* created, and the row's APEX identifier and discovery provenance stay.
C15_MergeOnExistingRow ==
    [][\A w \in Workers :
          /\ Merges(w) =>
                /\ KeepsRows
                /\ \A r2 \in players' :
                      r2.key = plocal[w].key => r2.nexus_puuid = plocal[w].puuid
          /\ (ppc[w] = "rank" /\ ppc'[w] = "idle") => KeepsRows]_identVars

\* C15 witness: a worker has set its NEXUS identifier on a row the APEX
\* pipeline created.
C15_Witness ==
    \E w \in Workers :
        /\ ppc[w] = "rank"
        /\ \E r \in get_player(plocal[w].key) :
              /\ r.nexus_puuid = plocal[w].puuid
              /\ r.apex_puuid # NULL
              /\ r.discovered_by = "apex"

\* ======================================================================
\* The regional rate limiter (services/collector/api/rate_limiter.py)
\* ======================================================================

\* RegionalRateLimiter.__init__: every region starts a full window at the
\* time of construction; no thread is inside acquire
LimInit ==
    /\ now = 0
    /\ LockOff
    /\ SchedOff
    /\ IdentOff
    /\ RestOff
    /\ clock = 0
    /\ buckets = [r \in BucketRegions |->
                    [tokens |-> RATE_LIMIT_REQUESTS, window_start |-> clock, lock |-> 0]]
    /\ acq = [c \in Callers |-> [pc |-> "idle", region |-> 0, sleep_until |-> 0]]
    /\ granted = [r \in BucketRegions |-> 0]

\* what the limiter steps leave alone
LimRest ==
    /\ UNCHANGED <<now, match_locks, matches, pc, todo, cur, txStart, sel, reason, calls,
                   inserted, released, api_calls, stats, tier, queue, qpc, taken,
                   empties, nca, lpc, lsel>>
    /\ StatsFrame
    /\ IdentFrame
    /\ RestFrame

\* variant: the with block is left without giving the Lock back
with_exit_kept(b) == b

\* Lock.__exit__ of "with bucket['lock']"
with_exit(b) == [b EXCEPT !.lock = 0]

\* variant: the token test lets a caller through at zero
has_tokens_inclusive(b) == b.tokens >= 0

\* if bucket['tokens'] > 0
has_tokens(b) == b.tokens > 0

\* elapsed = now - bucket['window_start']
Elapsed(b) == clock - b.window_start

\* if elapsed >= RATE_LIMIT_WINDOW_SECONDS: refill the bucket, start a window now
window_reset(b) ==
    IF Elapsed(b) >= RATE_LIMIT_WINDOW_SECONDS
    THEN [b EXCEPT !.tokens = RATE_LIMIT_REQUESTS, !.window_start = clock]
    ELSE b

\* a thread calls acquire(r)
Acquire(c, r) ==
    /\ acq[c].pc = "idle"
    /\ acq' = [acq EXCEPT ![c] = [pc |-> "lock", region |-> r, sleep_until |-> 0]]
    /\ UNCHANGED <<clock, buckets, granted>>
    /\ LimRest

\* with bucket['lock']: the thread waits until the Lock of its region is free
EnterBucket(c) ==
    /\ acq[c].pc = "lock"
    /\ buckets[acq[c].region].lock = 0
    /\ buckets' = [buckets EXCEPT ![acq[c].region].lock = c]
    /\ acq' = [acq EXCEPT ![c].pc = "bucket"]
    /\ UNCHANGED <<clock, granted>>
    /\ LimRest

\* the body of the with block: reset the window when it is over, then either
\* take a token and return True, or compute the sleep time and leave the block
UseBucket(c) ==
    /\ acq[c].pc = "bucket"
    /\ LET r == acq[c].region
           b == window_reset(buckets[r])
           g == IF b.window_start = buckets[r].window_start THEN granted[r] ELSE 0
       IN IF has_tokens(b)
          THEN /\ buckets' = [buckets EXCEPT ![r] = with_exit([b EXCEPT !.tokens = @ - 1])]
               /\ acq' = [acq EXCEPT ![c] = [pc |-> "idle", region |-> 0, sleep_until |-> 0]]
               /\ granted' = [granted EXCEPT ![r] = g + 1]
          ELSE /\ buckets' = [buckets EXCEPT ![r] = with_exit(b)]
               /\ acq' = [acq EXCEPT ![c].pc = "sleep",
                                      ![c].sleep_until =
                                          clock + (RATE_LIMIT_WINDOW_SECONDS - Elapsed(b))]
               /\ granted' = [granted EXCEPT ![r] = g]
    /\ UNCHANGED clock
    /\ LimRest

\* time.sleep(sleep_time) is over: return self.acquire(region)
WakeAndRetry(c) ==
    /\ acq[c].pc = "sleep"
    /\ clock >= acq[c].sleep_until
    /\ acq' = [acq EXCEPT ![c].pc = "lock", ![c].sleep_until = 0]
    /\ UNCHANGED <<clock, buckets, granted>>
    /\ LimRest

\* a second passes
LimTick ==
    /\ clock < MaxClock
    /\ clock' = clock + 1
    /\ UNCHANGED <<buckets, acq, granted>>
    /\ LimRest

LimNext ==
    \/ \E c \in Callers, r \in BucketRegions : Acquire(c, r)
    \/ \E c \in Callers : EnterBucket(c)
    \/ \E c \in Callers : UseBucket(c)
    \/ \E c \in Callers : WakeAndRetry(c)
    \/ LimTick

LimSpec == LimInit /\ [][LimNext]_limVars

\* ----------------------------------------------------------------------
\* Properties of the rate limiter (checked under LimSpec)
\* ----------------------------------------------------------------------

\* this step is acquire(r) of thread c returning True
Grants(c, r) == acq[c].pc = "bucket" /\ acq[c].region = r /\ acq'[c].pc = "idle"

\* the window of r that was open before this step is over and a new one starts
RollsOver(r) ==
    /\ clock - buckets[r].window_start >= RATE_LIMIT_WINDOW_SECONDS
    /\ buckets'[r].window_start = clock

\* C16: For one region with capacity RATE_LIMIT_REQUESTS per window of
\* RATE_LIMIT_WINDOW_SECONDS, acquire returns True at most RATE_LIMIT_REQUESTS
\* times per window of the limiter, for every interleaving of the calling
\* threads, and a caller that finds the quota of the window exhausted is
\* granted only by a step in which the window rolls over.
C16_RateBudget ==
    /\ [](\A r \in BucketRegions : granted[r] <= RATE_LIMIT_REQUESTS)
    /\ [][\A c \in Callers, r \in BucketRegions :
             (Grants(c, r) /\ buckets[r].tokens = 0) => RollsOver(r)]_limVars

\* C16 witness: the quota of a second window of a region is used up and a
\* caller that found it exhausted sleeps.
C16_Witness ==
    \E r \in BucketRegions, c \in Callers :
        /\ granted[r] = RATE_LIMIT_REQUESTS
        /\ buckets[r].tokens = 0
        /\ buckets[r].window_start > 0
        /\ acq[c].pc = "sleep" /\ acq[c].region = r
        /\ acq[c].sleep_until = buckets[r].window_start + RATE_LIMIT_WINDOW_SECONDS

\* the Lock of a region is held only by a thread inside the with block of
\* that region
LockHeldInside ==
    \A r \in BucketRegions :
        buckets[r].lock # 0 =>
            acq[buckets[r].lock].pc = "bucket" /\ acq[buckets[r].lock].region = r

\* a step of thread c leaves the bucket of every region but its own alone
OtherBucketsKept(c) ==
    acq'[c] # acq[c] =>
        \A r \in BucketRegions :
            (r # acq[c].region /\ r # acq'[c].region) =>
                buckets'[r] = buckets[r] /\ granted'[r] = granted[r]

\* inside the with block a thread whose region has quota left returns True
\* in its next step
ReturnsAtOnce(c) ==
    (acq[c].pc = "bucket" /\ acq'[c] # acq[c] /\ buckets[acq[c].region].tokens > 0)
        => acq'[c].pc = "idle"

\* C17: Rate limiting is independent per region: a caller that sleeps in
\* acquire(r1) because the quota of r1 is exhausted holds no lock, acquire(r2)
\* for a region r2 with quota left returns without sleeping, and no step of
\* acquire(r1), exhaustion and window reset included, changes the tokens or the
\* window of another region.
C17_RegionsIndependent ==
    /\ []LockHeldInside
    /\ [][\A c \in Callers : OtherBucketsKept(c) /\ ReturnsAtOnce(c)]_limVars

\* C17 witness: a caller sleeps on the exhausted quota of one region while
\* another caller is inside acquire of another region that has quota left.
C17_Witness ==
    \E c1, c2 \in Callers :
        /\ acq[c1].pc = "sleep"
        /\ buckets[acq[c1].region].tokens = 0
        /\ acq[c2].pc = "bucket"
        /\ acq[c2].region # acq[c1].region
        /\ buckets[acq[c2].region].tokens > 0

\* ======================================================================
\* Properties of the region threads (checked under SchedSpec)
\* ======================================================================

\* this step ends collect_player_matches of thread t and its bookkeeping
Finishes(t) == qpc[t] = "collect" /\ qpc'[t] # "collect"

\* the entry thread t works on, before and after the step
Before(t) == CHOOSE e \in queue : Key(e) = taken[t]
After(t) == CHOOSE e \in queue' : Key(e) = taken[t]

\* the step was the success path: the entry is rescheduled a day later
Completed(t) ==
    /\ After(t).attempts = 0
    /\ After(t).next_check = now + CompleteDelay
    /\ errors' = errors

\* the step was a failure path: one more attempt, retry an hour later, one error
Errored(t) ==
    /\ After(t).attempts = Before(t).attempts + 1
    /\ After(t).next_check = now + ErrorDelay
    /\ errors' = errors + 1

\* C18: A failure while processing one player (collect_player_matches
\* returning success=false or raising) puts the queue entry into the error
\* state (status 'pending', attempts incremented, as mark_queue_error does) and
\* is counted as one error; whatever the outcome, the region thread goes back
\* to the top of its loop and the entry is not left in status 'processing'.
C18_FailureBecomesQueueError ==
    [][\A t \in QThreads :
          Finishes(t) =>
             /\ qpc'[t] = "poll"
             /\ After(t).status = "pending"
             /\ Completed(t) \/ Errored(t)
             /\ \A e \in queue : Key(e) # taken[t] => e \in queue']_schedVars

\* C18 witness: an error was counted, and the entry that failed is being
\* processed again by a region thread.
C18_Witness ==
    /\ errors >= 1
    /\ \E t \in QThreads :
          /\ qpc[t] = "collect"
          /\ \E e \in queue : /\ Key(e) = taken[t]
                              /\ e.status = "processing"
                              /\ e.attempts >= 1

\* C19: Cancellation is cooperative and non-preemptive: a worker whose loop
\* ends after the shutdown flag was set has finished the player it was
\* processing, so it stops at the top of its loop with no player in hand.
C19_CooperativeCancellation ==
    [][/\ \A t \in QThreads :
             (qpc[t] # "stopped" /\ qpc'[t] = "stopped") => taken[t] = NoEntry
       /\ \A r \in Regions :
             (lpc[r] # "stopped" /\ lpc'[r] = "stopped") => lsel[r] = NoPlayer]_schedVars

\* the region threads are scheduled fairly and every collection terminates;
\* nothing is assumed about the passing of time or the arrival of signals
ThreadFairness ==
    \A t \in QThreads :
        WF_schedVars(PollApex(t) \/ PollNexus(t) \/ MarkProcessing(t)
                        \/ CollectPlayer(t) \/ StopThread(t))

\* a run of the unified runner that follows the seeder: every player is a
\* seeded Challenger with an entry in the apex queue, and the region threads start
RunnerInit ==
    /\ SchedInit
    /\ \A t \in QThreads : qpc[t] = "poll"
    /\ \A p \in Players : tier[p] = "CHALLENGER"

RunnerNext ==
    \/ \E t \in QThreads : PollApex(t)
    \/ \E t \in QThreads : PollNexus(t)
    \/ \E t \in QThreads : MarkProcessing(t)
    \/ \E t \in QThreads : CollectPlayer(t)
    \/ \E t \in QThreads : StopThread(t)
    \/ RequestShutdown
    \/ SchedTick

FairRunnerSpec == RunnerInit /\ [][RunnerNext]_schedVars /\ ThreadFairness

\* player p has a pending entry that is due / an entry marked 'processing'
DuePending(p) ==
    \E e \in queue : e.player = p /\ e.status = "pending" /\ e.next_check <= now
Processing(p) == \E e \in queue : e.player = p /\ e.status = "processing"

StatusRest ==
    /\ UNCHANGED <<now, match_locks, matches, pc, todo, cur, txStart, sel, reason, calls,
                   inserted, released, api_calls, stats, tier, queue, qpc, taken,
                   empties, nca, lpc, lsel,
                   should_stop, shutdown_event>>
    /\ IdentFrame
    /\ LimFrame
    /\ PartFrame
    /\ QuietFrame

\* the arguments a caller may pass for the four counters: None or a count
CounterArgs == [Counters -> {None} \cup (0..MaxInc)]

\* variant: SET column = %s, the argument replaces the stored value
increment_overwrite(old, inc) == inc

\* SET column = column + %s
increment(old, inc) == old + inc

\* UPDATE system_status SET ... WHERE service_name = s: one statement that adds
\* every counter argument that is not None to its column
update_service_status(s, a) ==
    [system_status EXCEPT ![s] =
        [c \in Counters |-> IF a[c] = None THEN @[c] ELSE increment(@[c], a[c])]]

\* the sum of what was passed, kept beside the table
Passed(s, a) ==
    [status_passed EXCEPT ![s] =
        [c \in Counters |-> IF a[c] = None THEN @[c] ELSE @[c] + a[c]]]

\* the counters are followed up to MaxCount
WithinCount(s, a) ==
    \A c \in Counters : a[c] # None => status_passed[s][c] + a[c] <= MaxCount

\* a call of update_service_status by the seeder, a collector, the resolver or
\* a runner
UpdateServiceStatus(s, a) ==
    /\ WithinCount(s, a)
    /\ system_status' = update_service_status(s, a)
    /\ status_passed' = Passed(s, a)
    /\ last_status' = [op |-> "update", service |-> s]
    /\ UNCHANGED <<run_stats, region_stats, stats_passed, stats_lock, upc, ucall, utmp,
                   errors>>
    /\ StatusRest

\* reset_service_status: UPDATE system_status SET players_processed = 0,
\* matches_collected = 0, api_calls_made = 0, errors_encountered = 0, ...
reset_service_status(s) == [system_status EXCEPT ![s] = [c \in Counters |-> 0]]

ResetServiceStatus(s) ==
    /\ system_status' = reset_service_status(s)
    /\ status_passed' = [status_passed EXCEPT ![s] = [c \in Counters |-> 0]]
    /\ last_status' = [op |-> "reset", service |-> s]
    /\ UNCHANGED <<run_stats, region_stats, stats_passed, stats_lock, upc, ucall, utmp,
                   errors>>
    /\ StatusRest

StatusInit ==
    /\ now = 0
    /\ LockOff
    /\ SchedOff
    /\ IdentOff
    /\ LimOff
    /\ StatusOff
    /\ PartOff
    /\ QuietOff

StatusNext ==
    \/ \E s \in Services, a \in CounterArgs : UpdateServiceStatus(s, a)
    \/ \E s \in Services : ResetServiceStatus(s)

StatusSpec == StatusInit /\ [][StatusNext]_statusVars

\* ------------------------------------------------ region threads and update_stats

\* the arguments of the two update_stats calls of process_region
SuccessCall(r, service, m, a) ==
    [region |-> r, service |-> service, players |-> 1, matches |-> m,
     api_calls |-> a, errors |-> 0]
ErrorCall(r, service) ==
    [region |-> r, service |-> service, players |-> 0, matches |-> 0,
     api_calls |-> 0, errors |-> 1]

\* what update_stats adds to each counter for the arguments c
Added(c) ==
    [k \in StatCounters |->
        CASE k = "apex_players" -> IF c.service = "apex" THEN c.players ELSE 0
          [] k = "apex_matches" -> IF c.service = "apex" THEN c.matches ELSE 0
          [] k = "nexus_players" -> IF c.service = "apex" THEN 0 ELSE c.players
          [] k = "nexus_matches" -> IF c.service = "apex" THEN 0 ELSE c.matches
          [] k = "total_api_calls" -> c.api_calls
          [] k = "errors" -> c.errors]

\* the arguments collect_player_matches passes to update_service_status
CollectorArgs(m, a) ==
    [c \in Counters |->
        CASE c = "players_processed" -> 1
          [] c = "matches_collected" -> m
          [] c = "api_calls_made" -> a
          [] c = "errors_encountered" -> None]

\* collect_player_matches returns to process_region: with success after its
\* update_service_status, or without success; process_region calls update_stats
CollectReturns(t) ==
    /\ upc[t] = "collect"
    /\ stats_passed["apex_players"] + stats_passed["nexus_players"]
           + stats_passed["errors"] < MaxCalls
    /\ \E service \in Services :
         \/ \E m \in 0..MaxInc, a \in 0..MaxInc :
              /\ WithinCount(service, CollectorArgs(m, a))
              /\ \A k \in StatCounters :
                   stats_passed[k] + Added(SuccessCall(TRegion(t), service, m, a))[k]
                       <= MaxCount
              /\ system_status' = update_service_status(service, CollectorArgs(m, a))
              /\ status_passed' = Passed(service, CollectorArgs(m, a))
              /\ last_status' = [op |-> "update", service |-> service]
              /\ ucall' = [ucall EXCEPT ![t] = SuccessCall(TRegion(t), service, m, a)]
              /\ stats_passed' =
                   [k \in StatCounters |->
                      stats_passed[k] + Added(SuccessCall(TRegion(t), service, m, a))[k]]
         \/ /\ stats_passed["errors"] < MaxCount
            /\ ucall' = [ucall EXCEPT ![t] = ErrorCall(TRegion(t), service)]
            /\ stats_passed' = [stats_passed EXCEPT !["errors"] = @ + 1]
            /\ UNCHANGED <<system_status, status_passed, last_status>>
    /\ upc' = [upc EXCEPT ![t] = "enter"]
    /\ UNCHANGED <<run_stats, region_stats, stats_lock, utmp, errors>>
    /\ StatusRest

\* variant: the counters are updated without taking the Lock
stats_lock_skipped == TRUE

\* Lock.acquire returns once no other thread is inside the with block
stats_lock_acquire == stats_lock = 0

\* update_stats: with self.stats_lock
EnterStats(t) ==
    /\ upc[t] = "enter"
    /\ stats_lock_acquire
    /\ stats_lock' = t
    /\ upc' = [upc EXCEPT ![t] = "load"]
    /\ UNCHANGED <<system_status, status_passed, last_status, run_stats, region_stats,
                   stats_passed, ucall, utmp, errors>>
    /\ StatusRest

\* update_stats: the += statements load the counters ...
LoadStats(t) ==
    /\ upc[t] = "load"
    /\ utmp' = [utmp EXCEPT ![t] =
                  [run |-> [c \in StatCounters |->
                              IF c = "errors" THEN errors ELSE run_stats[c]],
                   region |-> region_stats[ucall[t].region]]]
    /\ upc' = [upc EXCEPT ![t] = "store"]
    /\ UNCHANGED <<system_status, status_passed, last_status, run_stats, region_stats,
                   stats_passed, stats_lock, ucall, errors>>
    /\ StatusRest

\* ... and store the sums; the with block ends and the Lock is given back
StoreStats(t) ==
    /\ upc[t] = "store"
    /\ run_stats' = [c \in RunCounters |-> utmp[t].run[c] + Added(ucall[t])[c]]
    /\ errors' = utmp[t].run["errors"] + Added(ucall[t])["errors"]
    /\ region_stats' = [region_stats EXCEPT ![ucall[t].region] =
                          [c \in RegionCounters |->
                              utmp[t].region[c] + Added(ucall[t])[c]]]
    /\ stats_lock' = 0
    /\ upc' = [upc EXCEPT ![t] = "collect"]
    /\ UNCHANGED <<system_status, status_passed, last_status, stats_passed, ucall, utmp>>
    /\ StatusRest

\* the region threads run; the status rows start at zero
StatsInit ==
    /\ now = 0
    /\ LockOff
    /\ SchedOff
    /\ IdentOff
    /\ LimOff
    /\ system_status = [s \in Services |-> [c \in Counters |-> 0]]
    /\ status_passed = [s \in Services |-> [c \in Counters |-> 0]]
    /\ run_stats = [c \in RunCounters |-> 0]
    /\ region_stats = [r \in Regions |-> [c \in RegionCounters |-> 0]]
    /\ stats_passed = [c \in StatCounters |-> 0]
    /\ stats_lock = 0
    /\ upc = [t \in QThreads |-> "collect"]
    /\ ucall = [t \in QThreads |-> NoCall]
    /\ utmp = [t \in QThreads |-> NoLoad]
    /\ last_status = NoStatement
    /\ PartOff
    /\ QuietOff

StatsNext ==
    \/ \E t \in QThreads : CollectReturns(t)
    \/ \E t \in QThreads : EnterStats(t)
    \/ \E t \in QThreads : LoadStats(t)
    \/ \E t \in QThreads : StoreStats(t)

StatsSpec == StatsInit /\ [][StatsNext]_statusVars

\* ======================================================================
\* Properties of the status counters
\* ======================================================================

\* C21: No counter of a status row ever decreases through update_service_status;
\* a smaller value appears only in a reset_service_status step of that row, which
\* leaves all four counters at zero.
C21_CountersMonotonic ==
    [][\A s \in Services, c \in Counters :
          system_status'[s][c] < system_status[s][c]
              => /\ last_status' = [op |-> "reset", service |-> s]
                 /\ \A d \in Counters : system_status'[s][d] = 0]_statusVars

\* C21 witness: an update_service_status call has just added to counters that
\* were already above zero.
C21_Witness ==
    \E s \in Services :
        /\ last_status = [op |-> "update", service |-> s]
        /\ \A c \in Counters : system_status[s][c] = MaxCount

RECURSIVE SumRegions(_, _)
\* the sum of counter c over the region_stats entries of the regions in S
SumRegions(S, c) ==
    IF S = {} THEN 0
    ELSE LET r == CHOOSE x \in S : TRUE
         IN region_stats[r][c] + SumRegions(S \ {r}, c)

\* C22: No update is lost: every status counter equals the sum of the increments
\* passed for it, and once no update_stats call is in flight every counter of the
\* runner equals the sum of the arguments passed for it (all start at zero).
C22_NoLostUpdate ==
    /\ \A s \in Services, c \in Counters : system_status[s][c] = status_passed[s][c]
    /\ (\A t \in QThreads : upc[t] = "collect")
         => /\ \A c \in RunCounters : run_stats[c] = stats_passed[c]
            /\ errors = stats_passed["errors"]
            /\ \A c \in RegionCounters : SumRegions(Regions, c) = stats_passed[c]

\* C22 witness: both threads have finished an update_stats call and the counters
\* hold what the two calls passed.
C22_Witness ==
    /\ \A t \in QThreads : upc[t] = "collect" /\ ucall[t].players = 1
    /\ stats_passed["total_api_calls"] = MaxCount
    /\ run_stats["total_api_calls"] = MaxCount

\* ======================================================================
\* Queue routing (checked under DiscoverySpec)
\* ======================================================================

\* the tiers the routing check accepts for the player of an APEX queue entry
ApexQueueTiers == {"CHALLENGER", "GRANDMASTER", "UNRANKED"}

\* C24: Queue routing by tier: after any sequence of seeding, discovery and rank
\* updates, every APEX queue entry belongs to a player whose tier is CHALLENGER,
\* GRANDMASTER or UNRANKED.
C24_ApexQueueHighElo ==
    \A e \in queue :
        e.queue_type = "apex" => \A r \in get_player(e.player) : r.tier \in ApexQueueTiers

\* ======================================================================
\* Participants and bans of a match (database/operations/match_ops.py,
\* NexusPlayerProcessor.process_match_participants), run twice on one match
\* ======================================================================

replayVars == <<players, queue, last_add, match_participants, match_bans, match_data,
                account_answers, league_answers, mp, first_run>>

\* what the participant steps leave alone
ReplayRest ==
    /\ UNCHANGED <<now, match_locks, matches, pc, todo, cur, txStart, sel, reason, calls,
                   inserted, released, api_calls, stats, tier, qpc, taken, empties,
                   nca, lpc, lsel,
                   spc, ppc, plocal, rpc, rlocal>>
    /\ StatsFrame
    /\ LimFrame
    /\ StatusFrame
    /\ QuietFrame

\* INSERT INTO match_bans ... ON CONFLICT (match_id, team_id, pick_turn) DO NOTHING
insert_ban(rows, m, b) ==
    IF \E r \in rows : r.match_id = m /\ r.team_id = b.team_id /\ r.pick_turn = b.pick_turn
      THEN rows
      ELSE rows \cup {[match_id |-> m, team_id |-> b.team_id,
                       champion_id |-> b.champion_id, pick_turn |-> b.pick_turn]}

RECURSIVE InsertBans(_, _, _)
\* for team in teams: for ban in team['bans']: insert_ban(...)
InsertBans(rows, m, bans) ==
    IF bans = <<>> THEN rows
    ELSE InsertBans(insert_ban(rows, m, Head(bans)), m, Tail(bans))

\* update_rank_data on the rows update_nexus_puuid has written; no solo-queue
\* entry in the league answer: no call
RankUpdated(rows, k, t) ==
    IF t = "NONE" THEN rows
    ELSE {IF r.key = k THEN [r EXCEPT !.tier = t] ELSE r : r \in rows}

\* tier of a truly new player: 'UNRANKED' unless the league answer has a solo entry
NewTier(t) == IF t = "NONE" THEN "UNRANKED" ELSE t

\* _process_single_participant for the participant the loop has reached
ProcessSingleParticipant ==
    /\ mp.run \in {1, 2}
    /\ mp.idx <= Len(match_data.participants)
    /\ LET p == match_data.participants[mp.idx]
           m == match_data.match_id
           n == p.puuid
           known == get_player_by_puuid(n)
           k == account_answers[n]
           t == league_answers[n]
       IN IF known # {}
            THEN \* already in the database by PUUID: just insert the participant
                 /\ match_participants' =
                       insert_participant(m, (CHOOSE r \in known : TRUE).key,
                                          p.participant_id)
                 /\ UNCHANGED <<players, queue, last_add>>
            ELSE IF k = 0
            THEN \* could not get the Riot ID: the participant is given up
                 UNCHANGED <<players, queue, last_add, match_participants>>
            ELSE IF get_player(k) # {}
            THEN \* known by Riot ID: store the PUUID, refresh the rank
                 /\ players' = RankUpdated(update_nexus_puuid(k, n), k, t)
                 /\ match_participants' = insert_participant(m, k, p.participant_id)
                 /\ UNCHANGED <<queue, last_add>>
            ELSE \* truly new player: insert, route to a queue by tier
                 /\ players' = insert_player(PlayerRow(k, NULL, n, NewTier(t),
                                                       "nexus", FALSE))
                 /\ IF NewTier(t) \in {"CHALLENGER", "GRANDMASTER"}
                      THEN AddToQueue(k, "apex", DiscoveredApexPriority)
                      ELSE AddToQueue(k, "nexus", NexusPriority)
                 /\ match_participants' = insert_participant(m, k, p.participant_id)
    /\ mp' = [mp EXCEPT !.idx = @ + 1]
    /\ UNCHANGED <<match_bans, match_data, account_answers, league_answers, first_run>>
    /\ ReplayRest

\* the ban loop that ends process_match_participants, and its return
ProcessBans ==
    /\ mp.run \in {1, 2}
    /\ mp.idx > Len(match_data.participants)
    /\ match_bans' = InsertBans(match_bans, match_data.match_id, match_data.bans)
    /\ mp' = [run |-> mp.run + 1, idx |-> 1]
    /\ first_run' = IF mp.run = 1
                      THEN [players |-> players, queue |-> queue,
                            match_participants |-> match_participants,
                            match_bans |-> match_bans']
                      ELSE first_run
    /\ UNCHANGED <<players, queue, last_add, match_participants, match_data,
                   account_answers, league_answers>>
    /\ ReplayRest

\* the participants and bans a match may list
BanChoices == [team_id : {100}, pick_turn : 1..NumBans, champion_id : 1..2]

\* one match, its data and the API answers are fixed; players the APEX pipeline
\* discovered may be stored already
ReplayInit ==
    /\ now = 0
    /\ LockOff
    /\ SchedOff
    /\ LimOff
    /\ StatusOff
    /\ QuietOff
    /\ players \in SUBSET ApexDiscovered
    /\ spc = 0
    /\ ppc = [w \in Workers |-> "off"]
    /\ plocal = [w \in Workers |-> NoParticipant]
    /\ rpc = [r \in Resolvers |-> "off"]
    /\ rlocal = [r \in Resolvers |-> NoResolution]
    /\ last_add = NoAdd
    /\ match_participants = {}
    /\ match_bans = {}
    /\ \E ps \in [1..NumParticipants -> Puuids], bs \in [1..NumBans -> BanChoices] :
          match_data = [match_id |-> 1,
                        participants |-> [i \in 1..NumParticipants |->
                                            [puuid |-> ps[i], participant_id |-> i]],
                        bans |-> bs]
    /\ account_answers \in [Puuids -> Players \cup {0}]
    /\ league_answers \in [Puuids -> LeagueTiers \cup {"NONE"}]
    /\ mp = [run |-> 1, idx |-> 1]
    /\ first_run = NoTables

ReplayNext ==
    \/ ProcessSingleParticipant
    \/ ProcessBans

ReplaySpec == ReplayInit /\ [][ReplayNext]_replayVars

\* the four tables process_match_participants writes
Tables ==
    [players |-> players, queue |-> queue, match_participants |-> match_participants,
     match_bans |-> match_bans]

\* C23: Participants and bans are write-once: no step changes or removes a stored
\* participant or ban row; and when process_match_participants has run a second
\* time on the same match with the same API answers, the players, participant,
\* ban and queue tables are exactly as the first run left them.
C23_WriteOnceIdempotent ==
    [][/\ match_participants \subseteq match_participants'
       /\ match_bans \subseteq match_bans'
       /\ (mp.run = 2 /\ mp'.run = 3) =>
             /\ players' = first_run.players
             /\ queue' = first_run.queue
             /\ match_participants' = first_run.match_participants
             /\ match_bans' = first_run.match_bans]_replayVars

\* C23 witness: the second run has ended on a match in which two participants
\* resolved to one Riot ID and two bans share a pick turn, after the first run
\* discovered a player and stored identifiers.
C23_Witness ==
    /\ mp.run = 3
    /\ \E i, j \in 1..NumParticipants :
          /\ i < j
          /\ match_data.participants[i].puuid # match_data.participants[j].puuid
          /\ account_answers[match_data.participants[i].puuid] # 0
          /\ account_answers[match_data.participants[i].puuid]
                = account_answers[match_data.participants[j].puuid]
    /\ \E i, j \in 1..NumBans :
          /\ i < j
          /\ match_data.bans[i].pick_turn = match_data.bans[j].pick_turn
          /\ match_data.bans[i].champion_id # match_data.bans[j].champion_id
    /\ queue # {}
    /\ match_participants # {}

\* ======================================================================
\* mark_queue_complete and mark_queue_error on any stored queue
\* (database/operations/queue_ops.py)
\* ======================================================================

markVars == <<now, queue, last_mark>>

\* the keys of collection_queues: (region, game_name, tag_line, queue_type)
MarkKeys == {QueueKey(p, q) : p \in Players, q \in {"apex", "nexus"}}

\* the entries the runner can have left for key k: pending or processing, never
\* failed or failed once with an error text
StoredEntries(k) ==
    {[player |-> k.player, queue_type |-> k.queue_type,
      priority |-> IF k.queue_type = "apex" THEN SeedPriority ELSE NexusPriority,
      status |-> st, next_check |-> 0, attempts |-> f.attempts,
      last_error |-> f.last_error] :
         st \in {"pending", "processing"},
         f \in {[attempts |-> 0, last_error |-> NullText],
                [attempts |-> 1, last_error |-> UnknownError]}}

MarkInit ==
    /\ now \in 0..MaxTime
    /\ LockOff
    /\ SchedIdle
    /\ IdentOff
    /\ LimOff
    /\ StatusOff
    /\ PartOff
    /\ MarkOff
    /\ ScanOff
    /\ TailOff
    /\ \E present \in SUBSET MarkKeys :
          \E f \in [present -> UNION {StoredEntries(k) : k \in MarkKeys}] :
              /\ \A k \in present : f[k] \in StoredEntries(k)
              /\ queue = {f[k] : k \in present}

\* what the two calls leave alone
MarkRest ==
    /\ UNCHANGED <<now, match_locks, matches, pc, todo, cur, txStart, sel, reason, calls,
                   inserted, released, api_calls, stats, tier, qpc, taken, empties,
                   nca, lpc, lsel>>
    /\ StatsFrame
    /\ IdentFrame
    /\ LimFrame
    /\ StatusFrame
    /\ PartFrame
    /\ ScanFrame
    /\ TailFrame

\* one call of mark_queue_complete(region, game_name, tag_line, queue_type)
MarkComplete(k) ==
    /\ last_mark = NoMark
    /\ queue' = mark_queue_complete(k)
    /\ last_mark' = [op |-> "complete", key |-> k, error_message |-> NullText,
                     ret |-> mark_queue_returns(k)]
    /\ MarkRest

\* one call of mark_queue_error(region, game_name, tag_line, queue_type, message)
MarkError(k, error_message) ==
    /\ last_mark = NoMark
    /\ queue' = mark_queue_error(k, error_message)
    /\ last_mark' = [op |-> "error", key |-> k, error_message |-> error_message,
                     ret |-> mark_queue_returns(k)]
    /\ MarkRest

MarkNext ==
    \/ \E k \in MarkKeys : MarkComplete(k)
    \/ \E k \in MarkKeys, msg \in ErrorMessages : MarkError(k, msg)

MarkSpec == MarkInit /\ [][MarkNext]_markVars

\* the entries a call on key k must leave as they are
Others(k) == {e \in queue : Key(e) # k}

\* C30: mark_queue_complete sets status 'pending', attempts 0 and clears
\* last_error; mark_queue_error sets status 'pending', attempts + 1, next_check
\* one hour after now and stores the message; each touches only the entry of its
\* key, and returns False and changes nothing when that entry does not exist.
C30_MarkFunctions ==
    [][last_mark' # last_mark =>
          LET k == last_mark'.key
              old == {e \in queue : Key(e) = k}
              new == {e \in queue' : Key(e) = k}
          IN /\ Others(k) = {e \in queue' : Key(e) # k}
             /\ last_mark'.ret = (old # {})
             /\ old = {} => queue' = queue
             /\ Cardinality(new) = Cardinality(old)
             /\ \A e \in old, n \in new :
                   /\ n.status = "pending"
                   /\ n.priority = e.priority
                   /\ IF last_mark'.op = "complete"
                        THEN /\ n.attempts = 0
                             /\ n.last_error = NullText
                        ELSE /\ n.attempts = e.attempts + 1
                             /\ n.next_check = now + ErrorDelay
                             /\ n.last_error = last_mark'.error_message]_markVars

\* C30 witness: mark_queue_error returned True for an entry that was being
\* processed after an earlier failure, while another entry of the same player is
\* stored; the entry is pending with two attempts and the new message.
C30_Witness ==
    /\ last_mark.op = "error"
    /\ last_mark.ret
    /\ now > 0
    /\ \E e \in queue :
          /\ Key(e) = last_mark.key
          /\ e.status = "pending"
          /\ e.attempts = 2
          /\ e.last_error = last_mark.error_message
          /\ e.next_check = now + ErrorDelay
    /\ \E e \in queue : e.player = last_mark.key.player /\ Key(e) # last_mark.key


\* ======================================================================
\* The region threads of the runner around collect_player_matches
\* ======================================================================

QueuedPlayers == 1..NumQueued

\* the entries the queues hold when the runner starts: every other player is a
\* seeded one in the APEX queue, the rest are in the NEXUS queue; all are due
QueuedEntry(p) == QueueRow(p, IF p % 2 = 1 THEN "MASTER" ELSE "CHALLENGER", 0)

\* the row of a queued player: its NEXUS PUUID is known or still to be resolved
QueuedPlayer(k, resolved) ==
    PlayerRow(k, k, IF resolved THEN k ELSE NULL,
              IF k % 2 = 1 THEN "MASTER" ELSE "CHALLENGER", "apex", k % 2 = 0)

collectVars == <<now, match_locks, matches, pc, todo, cur, txStart, sel, reason,
                 calls, inserted, released, api_calls, stats, match_participants,
                 match_bans, queue, wplayer, system_status, status_passed, last_status,
                 run_stats, region_stats, stats_passed, errors>>

CollectTables ==
    /\ LockTables
    /\ pc = [w \in Workers |-> "poll"]
    /\ todo = [w \in Workers |-> {}]
    /\ cur = [w \in Workers |-> 0]
    /\ txStart = [w \in Workers |-> 0]
    /\ sel = [w \in Workers |-> {}]
    /\ reason = [w \in Workers |-> "none"]
    /\ api_calls = [w \in Workers |-> 0]
    /\ stats = [w \in Workers |-> NoStats]
    /\ queue = {QueuedEntry(p) : p \in QueuedPlayers}
    /\ \E stored \in SUBSET QueuedPlayers :
          \E resolved \in SUBSET stored :
              players = {QueuedPlayer(k, k \in resolved) : k \in stored}
    /\ SchedIdle
    /\ IdentIdle
    /\ LimOff
    /\ StatusOff
    /\ PartOff
    /\ MarkOff
    /\ ScanOff
    /\ SweepOff
    /\ ExtraOff

\* the region threads run alone: the main thread of the runner is left out
CollectInit == CollectTables /\ RunOff

\* what the steps of a region thread outside _collect_single_match leave alone
RunnerRest ==
    /\ UNCHANGED <<now, match_locks, matches, cur, txStart, sel, calls, inserted,
                   released, match_participants>>
    /\ UNCHANGED <<tier, qpc, taken, empties, nca, lpc, lsel, should_stop,
                   shutdown_event>>
    /\ UNCHANGED <<stats_lock, upc, ucall, utmp>>
    /\ UNCHANGED <<match_list, last_match_id, scan>>
    /\ IdentFrame /\ LimFrame /\ ReplayFrame /\ MarkFrame /\ TailFrame

\* update_stats(region, service, players, matches, api_calls, errors), as one
\* step: its += statements run inside the with block of stats_lock
update_stats(c) ==
    /\ run_stats' = [k \in RunCounters |-> run_stats[k] + Added(c)[k]]
    /\ region_stats' = [region_stats EXCEPT ![c.region] =
                          [k \in RegionCounters |-> @[k] + Added(c)[k]]]
    /\ errors' = errors + Added(c)["errors"]
    /\ stats_passed' = [k \in StatCounters |-> stats_passed[k] + Added(c)[k]]

\* process_region: players = get_next_from_queue(service, limit=1), then
\* mark_queue_processing(players[0])
TakePlayer(w) ==
    /\ pc[w] = "poll"
    /\ \E e \in get_next_from_queue(Service(w)) :
         /\ queue' = mark_queue_processing(Key(e))
         /\ wplayer' = [wplayer EXCEPT ![w] = Key(e)]
    /\ pc' = [pc EXCEPT ![w] = "start"]
    /\ UNCHANGED <<todo, reason, api_calls, stats, system_status, status_passed,
                   last_status, run_stats, region_stats, stats_passed, errors>>
    /\ RunnerRest

\* the 'error' of the dict collect_player_matches returns when get_player
\* finds no player or a player without NEXUS PUUID, or NullText
player_error(k) ==
    IF get_player(k.player) = {} THEN "Player not found in database"
    ELSE IF \A r \in get_player(k.player) : r.nexus_puuid = NULL
           THEN "Player missing NEXUS PUUID"
           ELSE NullText

\* collect_player_matches up to its for loop: the call returns without success,
\* which process_region answers with mark_queue_error and update_stats(errors=1);
\* or the two get_match_history calls are made and the loop starts
StartCollect(w) ==
    /\ pc[w] = "start"
    /\ \/ /\ player_error(wplayer[w]) # NullText
          /\ queue' = mark_queue_error(wplayer[w], player_error(wplayer[w]))
          /\ update_stats(ErrorCall(TRegion(w), Service(w)))
          /\ pc' = [pc EXCEPT ![w] = "poll"]
          /\ UNCHANGED <<todo, reason, api_calls, stats>>
       \/ /\ player_error(wplayer[w]) = NullText
          /\ api_calls' = [api_calls EXCEPT ![w] = HistoryCalls]
          /\ stats' = [stats EXCEPT ![w] = NoStats]
          /\ todo' = [todo EXCEPT ![w] = MatchIds]
          /\ reason' = [reason EXCEPT ![w] = "none"]
          /\ pc' = [pc EXCEPT ![w] = "idle"]
          /\ UNCHANGED <<queue, run_stats, region_stats, stats_passed, errors>>
    /\ UNCHANGED <<wplayer, system_status, status_passed, last_status>>
    /\ RunnerRest

\* collect_player_matches after its for loop: update_service_status with the
\* counters of the stats dict, then return stats
EndCollect(w) ==
    /\ pc[w] = "finished"
    /\ wplayer[w] # NoEntry
    /\ system_status' = update_service_status(Service(w),
                            CollectorArgs(stats[w].matches_collected, api_calls[w]))
    /\ status_passed' = Passed(Service(w),
                            CollectorArgs(stats[w].matches_collected, api_calls[w]))
    /\ last_status' = [op |-> "update", service |-> Service(w)]
    /\ pc' = [pc EXCEPT ![w] = "returned"]
    /\ UNCHANGED <<todo, reason, api_calls, stats, queue, wplayer, run_stats,
                   region_stats, stats_passed, errors>>
    /\ RunnerRest

\* process_region: if stats['success']: mark_queue_complete and update_stats,
\* else: mark_queue_error(..., stats.get('error', 'Unknown error')) and
\* update_stats(errors=1)
RunnerMarks(w) ==
    /\ pc[w] = "returned"
    /\ IF stats[w].success
         THEN /\ queue' = mark_queue_complete(wplayer[w])
              /\ update_stats(SuccessCall(TRegion(w), Service(w),
                                          stats[w].matches_collected, api_calls[w]))
         ELSE /\ queue' = mark_queue_error(wplayer[w], UnknownError)
              /\ update_stats(ErrorCall(TRegion(w), Service(w)))
    /\ pc' = [pc EXCEPT ![w] = "poll"]
    /\ UNCHANGED <<todo, reason, api_calls, stats, wplayer, system_status,
                   status_passed, last_status>>
    /\ RunnerRest

\* the steps of the region thread of worker w
RegionThread(w) ==
    \/ TakePlayer(w)
    \/ StartCollect(w)
    \/ NexusCollect(w)
    \/ ApexCollect(w)
    \/ EndCollect(w)
    \/ RunnerMarks(w)

CollectNext ==
    \/ \E w \in Workers : TakePlayer(w)
    \/ \E w \in Workers : StartCollect(w)
    \/ \E w \in Workers : NexusCollect(w)
    \/ \E w \in Workers : ApexCollect(w)
    \/ \E w \in Workers : EndCollect(w)
    \/ \E w \in Workers : RunnerMarks(w)
    \/ \E w \in Workers : Crash(w)
    \/ CleanupExpired
    \/ Tick

CollectSpec == CollectInit /\ [][CollectNext]_collectVars

\* every region thread that has not crashed keeps running, and time passes
FairCollectSpec ==
    /\ CollectSpec
    /\ \A w \in Workers : WF_collectVars(RegionThread(w))
    /\ WF_collectVars(Tick)


\* ======================================================================
\* Properties of the runner's collection cycle (checked under CollectSpec)
\* ======================================================================

\* the step in which worker w's try_acquire returns False and
\* _collect_single_match returns 'locked_by_other'
LockSkip(w) ==
    /\ pc[w] \in {"ta_select", "ta_insert"}
    /\ pc'[w] \in {"idle", "finished"}

\* the queue entries of the player worker w collects
WorkerEntries(w) == {e \in queue : Key(e) = wplayer[w]}

\* C29: A match whose try_acquire fails is a benign skip: the match is counted
\* as skipped and not as collected, the failed acquisition adds no API call,
\* the stats dict still says success, and when collect_player_matches has
\* returned the runner marks the queue entry complete (status 'pending',
\* attempts 0, no last_error, due a day later) and counts no error.
C29_LockSkipBenign ==
    [][\A w \in Workers :
          /\ LockSkip(w) =>
                /\ reason'[w] = "locked_by_other"
                /\ stats'[w].matches_skipped = stats[w].matches_skipped + 1
                /\ stats'[w].matches_collected = stats[w].matches_collected
                /\ stats'[w].success
                /\ api_calls'[w] = api_calls[w]
          /\ (pc[w] = "returned" /\ pc'[w] = "poll") =>
                /\ errors' = errors
                /\ \A e \in {f \in queue' : Key(f) = wplayer[w]} :
                      /\ e.status = "pending"
                      /\ e.attempts = 0
                      /\ e.last_error = NullText
                      /\ e.next_check = now + CompleteDelay]_collectVars

\* C29 witness: a worker whose only match was held by the other pipeline has
\* finished its player: one match skipped, none collected, no API call beyond
\* the two history requests, and its queue entry is pending again with no
\* attempts.
C29_Witness ==
    \E w \in Workers :
        /\ pc[w] = "poll"
        /\ reason[w] = "locked_by_other"
        /\ stats[w].matches_skipped = 1
        /\ stats[w].matches_collected = 0
        /\ api_calls[w] = HistoryCalls
        /\ WorkerEntries(w) # {}
        /\ \A e \in WorkerEntries(w) : e.status = "pending" /\ e.attempts = 0

\* the rows of match_participants that belong to match m
ParticipantsOf(m) == {r \in match_participants : r.match_id = m}

\* the last _collect_single_match call of worker w was for match m and found it
\* in the matches table
SkippedAsStored(w, m) ==
    /\ reason[w] = "already_in_db"
    /\ m \in MatchIds \ todo[w]
    /\ \A k \in MatchIds \ todo[w] : m <= k

\* C25: every persisted match eventually has its participant rows, also when
\* the worker that inserted it wrote none of them: once a later pass has come
\* over the same match id, the participant rows are there or will be.
C25_ParticipantsEventually ==
    \A m \in MatchIds :
        (match_exists(m) /\ \E w \in Workers : SkippedAsStored(w, m))
            ~> (ParticipantsOf(m) # {})


\* ======================================================================
\* The per-region collector: find_new_matches and update_player_checked
\* ======================================================================

\* is_very_active: new_match_count >= 20
VeryActive == 20

scanVars == <<matches, match_participants, match_bans, nca, shutdown_event, match_list,
              last_match_id, scan>>

\* the collectors of all regions start; no match has been played or stored and
\* no player has been checked
ScanInit ==
    /\ now = 0
    /\ LockOff
    /\ queue = {}
    /\ tier = [p \in Players |-> "MASTER"]
    /\ qpc = [t \in QThreads |-> "stopped"]
    /\ taken = [t \in QThreads |-> NoEntry]
    /\ empties = [t \in QThreads |-> 0]
    /\ nca = [p \in Players |-> 0]
    /\ lpc = [r \in Regions |-> "stopped"]
    /\ lsel = [r \in Regions |-> NoPlayer]
    /\ should_stop = FALSE
    /\ shutdown_event = FALSE
    /\ errors = 0
    /\ IdentOff
    /\ LimOff
    /\ StatusOff
    /\ PartOff
    /\ MarkOff
    /\ TailOff
    /\ wplayer = [w \in Workers |-> NoEntry]
    /\ match_list = <<>>
    /\ last_match_id = [p \in Players |-> 0]
    /\ scan = [r \in Regions |-> [NoScan EXCEPT !.pc = "select"]]

\* what the steps of the collector and of its surroundings leave alone
ScanRest ==
    /\ UNCHANGED <<now, match_locks, pc, todo, cur, txStart, sel, reason, calls,
                   inserted, released, api_calls, stats>>
    /\ UNCHANGED <<tier, queue, qpc, taken, empties, lpc, lsel, should_stop, errors>>
    /\ UNCHANGED wplayer
    /\ UNCHANGED <<match_data, account_answers, league_answers, mp, first_run>>
    /\ IdentFrame /\ LimFrame /\ StatusFrame /\ MarkFrame /\ TailFrame

\* the for loop of find_new_matches over match_history from its i-th id on:
\* break at last_match_id, continue at a stored match, append the others
RECURSIVE NewMatchesFrom(_, _)
NewMatchesFrom(i, last) ==
    IF i > Len(match_list) THEN <<>>
    ELSE IF match_list[i] = last THEN <<>>
    ELSE IF match_exists(match_list[i]) THEN NewMatchesFrom(i + 1, last)
    ELSE <<match_list[i]>> \o NewMatchesFrom(i + 1, last)

find_new_matches(p) == NewMatchesFrom(1, last_match_id[p])

\* while not shutdown_event.is_set(): get_next_player, or the oldest checked
\* player when no one is due; none at all: sleep and try again
SelectScanned(r) ==
    /\ scan[r].pc = "select"
    /\ ~shutdown_event
    /\ \E p \in (IF get_next_player(r) # {} THEN get_next_player(r)
                 ELSE get_oldest_checked_player(r)) :
          scan' = [scan EXCEPT ![r] = [pc |-> "scan", player |-> p,
                                       new_matches |-> <<>>, idx |-> 0]]
    /\ UNCHANGED <<matches, match_participants, match_bans, nca, shutdown_event, match_list,
                   last_match_id>>
    /\ ScanRest

\* new_matches = find_new_matches(player); if shutdown_event.is_set(): break
FindNewMatches(r) ==
    /\ scan[r].pc = "scan"
    /\ scan' = [scan EXCEPT ![r] =
                  IF shutdown_event THEN NoScan
                  ELSE [@ EXCEPT !.pc = "fetch",
                                 !.new_matches = find_new_matches(scan[r].player),
                                 !.idx = 1]]
    /\ UNCHANGED <<matches, match_participants, match_bans, nca, shutdown_event, match_list,
                   last_match_id>>
    /\ ScanRest

\* info['gameDuration'] < 300 in the data of match m: every other game is a remake
Remake(m) == m % 2 = 0

\* shared.database.match_ops.insert_match: a remake is skipped; else the match
\* row, its participants and its bans are inserted in one transaction, ON
\* CONFLICT DO NOTHING each
StoreMatch(m) ==
    IF Remake(m) \/ match_exists(m)
      THEN UNCHANGED <<matches, match_participants, match_bans>>
      ELSE /\ matches' = matches \cup
                  {[match_id |-> m, collected_by |-> "collector", by |-> 0]}
           /\ match_participants' = match_participants \cup Roster(m)
           /\ match_bans' = StoredBans(m)

\* one pass of for match_id in new_matches: get_match answers data, answers
\* None (continue), a call of the body raises (the error is counted), or the
\* shutdown event is seen after get_match (break)
FetchNewMatch(r) ==
    /\ scan[r].pc = "fetch"
    /\ scan[r].idx <= Len(scan[r].new_matches)
    /\ \E outcome \in {"data", "none", "exception"} :
         IF shutdown_event
           THEN /\ scan' = [scan EXCEPT ![r].idx = Len(scan[r].new_matches) + 1]
                /\ UNCHANGED <<matches, match_participants, match_bans>>
           ELSE /\ scan' = [scan EXCEPT ![r].idx = @ + 1]
                /\ IF outcome = "data"
                     THEN StoreMatch(scan[r].new_matches[scan[r].idx])
                     ELSE UNCHANGED <<matches, match_participants, match_bans>>
    /\ UNCHANGED <<nca, shutdown_event, match_list, last_match_id>>
    /\ ScanRest

\* last_match = new_matches[0] if new_matches else player.get('last_match_id')
last_match(p, new_matches) ==
    IF new_matches # <<>> THEN new_matches[1] ELSE last_match_id[p]

\* after the for loop: update_player_checked(puuid, last_match, tier), and
\* boost_player_priority for a very active player
UpdateChecked(r) ==
    /\ scan[r].pc = "fetch"
    /\ scan[r].idx > Len(scan[r].new_matches)
    /\ last_match_id' = [last_match_id EXCEPT ![scan[r].player] =
                           last_match(scan[r].player, scan[r].new_matches)]
    /\ nca' = IF Len(scan[r].new_matches) >= VeryActive
                THEN boost_player_priority(scan[r].player)
                ELSE update_player_checked(scan[r].player)
    /\ scan' = [scan EXCEPT ![r] = [NoScan EXCEPT !.pc = "select"]]
    /\ UNCHANGED <<matches, match_participants, match_bans, shutdown_event, match_list>>
    /\ ScanRest

\* the while condition sees the shutdown event: the collector stops
StopScanning(r) ==
    /\ scan[r].pc = "select"
    /\ shutdown_event
    /\ scan' = [scan EXCEPT ![r] = NoScan]
    /\ UNCHANGED <<matches, match_participants, match_bans, nca, shutdown_event, match_list,
                   last_match_id>>
    /\ ScanRest

\* signal_handler: shutdown_event.set()
SignalShutdown ==
    /\ ~shutdown_event
    /\ shutdown_event' = TRUE
    /\ UNCHANGED <<matches, match_participants, match_bans, nca, match_list,
                   last_match_id, scan>>
    /\ ScanRest

\* the players finish another game: get_match_list answers one more id, first
PlayMatch ==
    /\ Len(match_list) < NumPlayed
    /\ match_list' = <<Len(match_list) + 1>> \o match_list
    /\ UNCHANGED <<matches, match_participants, match_bans, nca, shutdown_event,
                   last_match_id,
                   scan>>
    /\ ScanRest

ScanNext ==
    \/ \E r \in Regions : SelectScanned(r)
    \/ \E r \in Regions : FindNewMatches(r)
    \/ \E r \in Regions : FetchNewMatch(r)
    \/ \E r \in Regions : UpdateChecked(r)
    \/ \E r \in Regions : StopScanning(r)
    \/ SignalShutdown
    \/ PlayMatch

ScanSpec == ScanInit /\ [][ScanNext]_scanVars

\* the ids of the history
Played == {match_list[i] : i \in DOMAIN match_list}

\* C26: a player's last_match_id is advanced past a match only when that match
\* has been persisted: every regular game of the history that is last_match_id
\* or older than it, and so behind the point where the scan stops, is in the
\* matches table (a remake is never stored).
C26_LastMatchOnlyPersisted ==
    \A p \in Players : \A m \in Played :
        (last_match_id[p] # 0 /\ m <= last_match_id[p] /\ ~Remake(m)) => match_exists(m)

\* ======================================================================
\* The sweep of queue entries stuck in 'processing'
\* (queue_ops.cleanup_stuck_processing, scripts/database_maintenance.py)
\* ======================================================================

\* minutes of an hour: the sweep's timeout is given in minutes
HourMinutes == 60

\* timeout_minutes: the default of cleanup_stuck_processing, and the
\* INTERVAL '1 hour' of the maintenance script
DefaultStuckTimeout == 30
MaintenanceTimeout == 60

sweepVars == <<now, queue, last_attempt, last_sweep>>

\* every queue holds pending, due entries that were never attempted
SweepInit ==
    /\ now = 0
    /\ LockOff
    /\ SchedIdle
    /\ IdentOff
    /\ LimOff
    /\ StatusOff
    /\ PartOff
    /\ MarkOff
    /\ ScanOff
    /\ queue \in SUBSET {NewEntry(k.player, k.queue_type,
                                  IF k.queue_type = "apex" THEN SeedPriority
                                  ELSE NexusPriority) : k \in MarkKeys}
    /\ Cardinality(queue) <= NumQueued
    /\ last_attempt = [k \in MarkKeys |-> None]
    /\ last_sweep = NoSweep
    /\ RunOff
    /\ ExtraOff

\* what the steps on the queue table leave alone
SweepRest ==
    /\ UNCHANGED <<match_locks, matches, pc, todo, cur, txStart, sel, reason, calls,
                   inserted, released, api_calls, stats, tier, qpc, taken, empties,
                   nca, lpc, lsel>>
    /\ StatsFrame
    /\ IdentFrame
    /\ LimFrame
    /\ StatusFrame
    /\ PartFrame
    /\ MarkFrame
    /\ ScanFrame
    /\ RunFrame
    /\ ExtraFrame

\* last_attempt < CURRENT_TIMESTAMP - INTERVAL 'timeout_minutes minutes'
\* (a NULL last_attempt makes the comparison NULL: the row is not selected)
attempt_stale(k, timeout_minutes) ==
    /\ last_attempt[k] # None
    /\ last_attempt[k] * HourMinutes < now * HourMinutes - timeout_minutes

\* variant: every entry in 'processing' is reset, whatever its last_attempt
reset_stuck_all(types, timeout_minutes) ==
    {IF e.queue_type \in types /\ e.status = "processing"
       THEN [e EXCEPT !.status = "pending", !.next_check = now]
       ELSE e : e \in queue}

\* UPDATE collection_queues SET status = 'pending', next_check = CURRENT_TIMESTAMP
\* WHERE [queue_type = ...] AND status = 'processing' AND last_attempt < ...
reset_stuck(types, timeout_minutes) ==
    {IF /\ e.queue_type \in types
        /\ e.status = "processing"
        /\ attempt_stale(Key(e), timeout_minutes)
       THEN [e EXCEPT !.status = "pending", !.next_check = now]
       ELSE e : e \in queue}

\* cursor.rowcount of that UPDATE
reset_stuck_count(types, timeout_minutes) ==
    Cardinality({e \in queue : /\ e.queue_type \in types
                               /\ e.status = "processing"
                               /\ attempt_stale(Key(e), timeout_minutes)})

\* a region thread takes the next due entry of a queue: mark_queue_processing
\* sets status = 'processing' and last_attempt = CURRENT_TIMESTAMP
StartProcessing(queue_type) ==
    /\ \E e \in get_next_from_queue(queue_type) :
         /\ queue' = mark_queue_processing(Key(e))
         /\ last_attempt' = [last_attempt EXCEPT ![Key(e)] = now]
    /\ UNCHANGED <<now, last_sweep>>
    /\ SweepRest

\* the thread that took entry k has not crashed: it ends the player's cycle with
\* mark_queue_complete or mark_queue_error
EndProcessing(k) ==
    /\ \E e \in queue : Key(e) = k /\ e.status = "processing"
    /\ \/ queue' = mark_queue_complete(k)
       \/ queue' = mark_queue_error(k, UnknownError)
    /\ UNCHANGED <<now, last_attempt, last_sweep>>
    /\ SweepRest

\* cleanup_stuck_processing(queue_type, timeout_minutes)
CleanupStuckProcessing(queue_type, timeout_minutes) ==
    /\ queue' = reset_stuck({queue_type}, timeout_minutes)
    /\ last_sweep' = [queue_type |-> queue_type, timeout |-> timeout_minutes,
                      ret |-> reset_stuck_count({queue_type}, timeout_minutes),
                      odd |-> ~last_sweep.odd]
    /\ UNCHANGED <<now, last_attempt>>
    /\ SweepRest

\* database_maintenance.py, step 2: the same UPDATE over both queues
MaintenanceSweep ==
    /\ queue' = reset_stuck({"apex", "nexus"}, MaintenanceTimeout)
    /\ last_sweep' = [queue_type |-> "all", timeout |-> MaintenanceTimeout,
                      ret |-> reset_stuck_count({"apex", "nexus"}, MaintenanceTimeout),
                      odd |-> ~last_sweep.odd]
    /\ UNCHANGED <<now, last_attempt>>
    /\ SweepRest

\* an hour passes
SweepTick ==
    /\ now < MaxTime
    /\ now' = now + 1
    /\ UNCHANGED <<queue, last_attempt, last_sweep>>
    /\ SweepRest

SweepNext ==
    \/ \E q \in {"apex", "nexus"} : StartProcessing(q)
    \/ \E k \in MarkKeys : EndProcessing(k)
    \/ \E q \in {"apex", "nexus"} :
          CleanupStuckProcessing(q, DefaultStuckTimeout)
    \/ MaintenanceSweep
    \/ SweepTick

SweepSpec == SweepInit /\ [][SweepNext]_sweepVars

\* the queues the last sweep went over
Swept(sw) == IF sw.queue_type = "all" THEN {"apex", "nexus"} ELSE {sw.queue_type}

\* entry e is in 'processing' and its last_attempt lies more than the timeout
\* of sweep sw back
StuckFor(e, sw) ==
    /\ e.queue_type \in Swept(sw)
    /\ e.status = "processing"
    /\ last_attempt[Key(e)] # None
    /\ (now - last_attempt[Key(e)]) * HourMinutes > sw.timeout

\* C31: a sweep resets every entry of its queues that is in 'processing' with a
\* last_attempt more than the timeout back to 'pending' with next_check = now
\* (the entry is due again), and changes nothing else: entries that are
\* 'pending', entries whose last_attempt lies within the timeout and entries
\* of other queues stay as they are; it returns the number of entries reset.
C31_SweepResetsStuck ==
    [][last_sweep' # last_sweep =>
          /\ queue' = {IF StuckFor(e, last_sweep')
                         THEN [e EXCEPT !.status = "pending", !.next_check = now]
                         ELSE e : e \in queue}
          /\ \A e \in queue : StuckFor(e, last_sweep') =>
                \E f \in get_next_from_queue(e.queue_type)' : f.queue_type = e.queue_type
          /\ last_sweep'.ret = Cardinality({e \in queue : StuckFor(e, last_sweep')})
          /\ last_attempt' = last_attempt]_sweepVars

\* C31 witness: a sweep has just reset an entry that was taken more than the
\* timeout ago, while an entry taken within the timeout is still 'processing'.
C31_Witness ==
    /\ last_sweep.ret > 0
    /\ \E e \in queue : /\ e.status = "pending"
                        /\ e.next_check = now
                        /\ now > 0
                        /\ last_attempt[Key(e)] # None
                        /\ e.queue_type \in Swept(last_sweep)
    /\ \E e \in queue : /\ e.status = "processing"
                        /\ e.queue_type \in Swept(last_sweep)
                        /\ last_attempt[Key(e)] = now

\* ======================================================================
\* The recheck interval on completion (checked under SchedSpec)
\* ======================================================================

\* the next-eligible-time the tier of player p prescribes for a cycle
\* completed now
TierRecheck(p) == now + DayHours * TIER_INTERVALS(tier[p])

\* this step is region thread t marking the entry it took complete
QueueCompletes(t) == qpc[t] = "collect" /\ qpc'[t] = "poll" /\ errors' = errors

\* this step is the collector of region r rescheduling the player it checked
\* (an exception leaves next_check_after as it was, a very active player is
\* boosted instead)
CollectorCompletes(r) ==
    /\ lpc[r] = "collect"
    /\ lpc'[r] = "select"
    /\ nca'[lsel[r].player] \notin {nca[lsel[r].player], now + BoostDelay}

\* C32: on completion of a player's cycle its next-eligible-time is now plus
\* the recheck interval of the player's tier (2 days for CHALLENGER ... 14 for
\* GOLD and below), both for the per-region collector (next_check_after of
\* the player) and for the region threads of the pipeline runners (next_check
\* of the queue entry).
C32_TierRecheckInterval ==
    [][/\ \A r \in Regions :
             CollectorCompletes(r) => nca'[lsel[r].player] = TierRecheck(lsel[r].player)
       /\ \A t \in QThreads :
             QueueCompletes(t) =>
                 \A e \in queue' :
                     Key(e) = taken[t] => e.next_check = TierRecheck(e.player)]_schedVars

\* ======================================================================
\* APEX first, NEXUS as fallback (checked under SchedSpec)
\* ======================================================================

\* the queue the poll of thread t is about to read
PolledQueue(t) == IF qpc[t] = "poll" THEN "apex" ELSE "nexus"

\* the table with the entry of key k changed by some UPDATE, all other rows
\* as they were
OnlyEntryChanged(k) ==
    /\ \A e \in queue : Key(e) # k => e \in queue'
    /\ \A e \in queue' : Key(e) # k => e \in queue
    /\ \E e \in queue' : Key(e) = k

\* C33: a region thread of the unified runner polls the APEX queue first and
\* polls the NEXUS queue only when the APEX poll returned no due entry; the
\* entry it then works on is one the poll of that queue returned, and the
\* thread marks it processing and complete or errored in the queue (service)
\* it came from, leaving all other entries alone.
C33_ApexFirstNexusFallback ==
    [][\A t \in QThreads :
          /\ (qpc[t] # "poll_nexus" /\ qpc'[t] = "poll_nexus") =>
                 (qpc[t] = "poll" /\ get_next_from_queue("apex") = {})
          /\ (qpc[t] # "mark" /\ qpc'[t] = "mark") =>
                 /\ qpc[t] \in {"poll", "poll_nexus"}
                 /\ taken'[t].queue_type = PolledQueue(t)
                 /\ \E e \in get_next_from_queue(PolledQueue(t)) : taken'[t] = Key(e)
          /\ (qpc[t] = "mark" /\ qpc'[t] = "collect") =>
                 /\ taken'[t] = taken[t]
                 /\ OnlyEntryChanged(taken[t])
                 /\ \A e \in queue' : Key(e) = taken[t] => e.status = "processing"
          /\ (qpc[t] = "collect" /\ qpc'[t] = "poll") =>
                 /\ OnlyEntryChanged(taken[t])
                 /\ \A e \in queue' : Key(e) = taken[t] => e.status = "pending"]_schedVars

\* C33 witness: a thread works on an entry it took from the NEXUS queue after
\* its APEX poll came back empty, while the APEX queue holds an entry.
C33_Witness ==
    \E t \in QThreads :
        /\ qpc[t] = "collect"
        /\ taken[t].queue_type = "nexus"
        /\ \E e \in queue : Key(e) = taken[t] /\ e.status = "processing"
        /\ \E e \in queue : e.queue_type = "apex"

\* ======================================================================
\* Retirement of an idle region thread (checked under SchedSpec)
\* ======================================================================

\* both polls of the iteration thread t is ending came back empty
BothEmpty(t) ==
    /\ qpc[t] = "poll_nexus"
    /\ get_next_from_queue("nexus") = {}

\* C34: a region thread retires for lack of work exactly when the poll that
\* found both queues empty is the sixth in a row (consecutive_empty_checks
\* reaches 6): the counter grows by one with every iteration in which both
\* queues returned no entry, any poll that returns an entry sets it to zero,
\* and a thread otherwise stops only at the top of its loop because the run
\* deadline has passed or a stop was requested; the loop condition is
\* evaluated before every iteration's polls.
C34_RetiresAfterSixEmptyChecks ==
    [][\A t \in QThreads :
          /\ (qpc[t] # "stopped" /\ qpc'[t] = "stopped") =>
                 \/ BothEmpty(t) /\ empties[t] + 1 = EmptyLimit /\ empties'[t] = EmptyLimit
                 \/ qpc[t] = "poll" /\ ~KeepRunning /\ empties'[t] = empties[t]
          /\ (BothEmpty(t) /\ qpc'[t] # qpc[t]) =>
                 /\ empties'[t] = empties[t] + 1
                 /\ qpc'[t] = IF empties'[t] = EmptyLimit THEN "stopped" ELSE "poll"
          /\ empties'[t] # empties[t] =>
                 \/ BothEmpty(t) /\ empties'[t] = empties[t] + 1
                 \/ /\ get_next_from_queue(PolledQueue(t)) # {}
                    /\ qpc[t] \in {"poll", "poll_nexus"}
                    /\ empties'[t] = 0
          /\ (qpc[t] \in {"poll", "poll_nexus"} /\ qpc'[t] = "mark") => empties'[t] = 0
          /\ (qpc[t] = "poll" /\ qpc'[t] \in {"poll_nexus", "mark"}) => KeepRunning]_schedVars

\* C34 witness: a thread has retired on its sixth empty check in a row while
\* the run deadline had not passed and no stop was requested.
C34_Witness ==
    \E t \in QThreads :
        /\ qpc[t] = "stopped"
        /\ empties[t] = EmptyLimit
        /\ KeepRunning

\* ======================================================================
\* Shutdown of the unified runner: UnifiedCollectionRunner.run on the main
\* thread, GracefulShutdown._signal_handler and _on_shutdown, which Python
\* runs on the main thread between two of its instructions, and the region
\* threads (run_collection_parallel_unified.py, signal_handler.py)
\* ======================================================================

\* signals delivered to the process during one run
MaxSignals == 2

shutdownVars == <<main_pc, handler_pc, shutdown_requested, progress_saved,
                  service_state, signals, exit_pending, qpc, should_stop>>

\* the runner is constructed; system_status is as the last run left it
ShutdownInit ==
    /\ now = 0
    /\ LockOff
    /\ queue = {}
    /\ tier = [p \in Players |-> "UNKNOWN"]
    /\ qpc = [t \in QThreads |-> "unstarted"]
    /\ taken = [t \in QThreads |-> NoEntry]
    /\ empties = [t \in QThreads |-> 0]
    /\ nca = [p \in Players |-> 0]
    /\ lpc = [r \in Regions |-> "stopped"]
    /\ lsel = [r \in Regions |-> NoPlayer]
    /\ should_stop = FALSE
    /\ shutdown_event = FALSE
    /\ errors = 0
    /\ IdentOff
    /\ LimOff
    /\ StatusOff
    /\ PartOff
    /\ MarkOff
    /\ ScanOff
    /\ SweepOff
    /\ ExtraOff
    /\ main_pc = "mark_apex"
    /\ handler_pc = "idle"
    /\ shutdown_requested = FALSE
    /\ progress_saved = FALSE
    /\ service_state \in [Services -> {IdleService,
                                       [is_active |-> TRUE,
                                        current_phase |-> "unified_collection"]}]
    /\ signals = 0
    /\ exit_pending = FALSE

\* what the steps of the main thread and of the signal handler leave alone,
\* the status counters apart
ShutdownBase ==
    /\ UNCHANGED <<now, queue, match_locks, matches, pc, todo, cur, txStart, sel,
                   reason, calls, inserted, released, api_calls, stats, tier, taken,
                   empties, nca, lpc, lsel, shutdown_event, errors>>
    /\ IdentFrame
    /\ LimFrame
    /\ PartFrame
    /\ MarkFrame
    /\ ScanFrame
    /\ SweepFrame
    /\ ExtraFrame

ShutdownRest == ShutdownBase /\ StatusFrame

\* update_service_status(service_name, is_active=..., current_phase=...)
set_service_state(s, is_active, current_phase) ==
    [service_state EXCEPT ![s] = [is_active |-> is_active,
                                  current_phase |-> current_phase]]

\* the main thread executes: no signal handler is running on it
MainRuns == handler_pc \in {"idle", "done"}

\* mark_service_active('apex', 'unified_collection'), then the same for 'nexus'
MarkServiceActive ==
    /\ MainRuns
    /\ main_pc \in {"mark_apex", "mark_nexus"}
    /\ service_state' = set_service_state(IF main_pc = "mark_apex" THEN "apex" ELSE "nexus",
                                          TRUE, "unified_collection")
    /\ main_pc' = IF main_pc = "mark_apex" THEN "mark_nexus" ELSE "spawn"
    /\ UNCHANGED <<handler_pc, shutdown_requested, progress_saved, signals,
                   exit_pending, qpc, should_stop>>
    /\ ShutdownRest

\* for region in settings.REGIONS: Thread(target=self.process_region).start()
StartThreads ==
    /\ MainRuns
    /\ main_pc = "spawn"
    /\ qpc' = [t \in QThreads |-> "poll"]
    /\ main_pc' = "join"
    /\ UNCHANGED <<handler_pc, shutdown_requested, progress_saved, service_state,
                   signals, exit_pending, should_stop>>
    /\ ShutdownRest

\* process_region has returned in every region thread, whether the thread is
\* followed poll by poll (qpc) or through its collection cycles (pc)
ThreadsDone ==
    /\ \A t \in QThreads : qpc[t] = "stopped"
    /\ \A w \in Workers : \/ pc[w] = "stopped"
                          \/ pc[w] = "finished" /\ wplayer[w] = NoEntry

\* for thread in threads: thread.join() has returned for every thread
JoinThreads ==
    /\ MainRuns
    /\ main_pc = "join"
    /\ ThreadsDone
    /\ main_pc' = "final_apex"
    /\ UNCHANGED <<handler_pc, shutdown_requested, progress_saved, service_state,
                   signals, exit_pending, qpc, should_stop>>
    /\ ShutdownRest

\* variant: the finally block leaves is_active as it is
FinalStatusKeeping ==
    /\ MainRuns
    /\ main_pc \in {"final_apex", "final_nexus"}
    /\ main_pc' = IF main_pc = "final_apex" THEN "final_nexus"
                  ELSE IF exit_pending THEN "exited" ELSE "returned"
    /\ UNCHANGED <<handler_pc, shutdown_requested, progress_saved, service_state,
                   signals, exit_pending, qpc, should_stop>>
    /\ ShutdownRest

\* the counter arguments of the final update_service_status of service s:
\* matches_collected = self.apex_matches, or self.nexus_matches
final_args(s) ==
    [c \in Counters |->
        IF c = "matches_collected"
        THEN run_stats[IF s = "apex" THEN "apex_matches" ELSE "nexus_matches"]
        ELSE None]

\* finally: update_service_status(service_name='apex', is_active=False,
\* current_phase='idle', matches_collected=self.apex_matches), then the same
\* for 'nexus'; run then returns, or the SystemExit that brought it here goes on
FinalStatus ==
    /\ MainRuns
    /\ main_pc \in {"final_apex", "final_nexus"}
    /\ LET s == IF main_pc = "final_apex" THEN "apex" ELSE "nexus"
       IN /\ service_state' = set_service_state(s, FALSE, "idle")
          /\ system_status' = update_service_status(s, final_args(s))
    /\ main_pc' = IF main_pc = "final_apex" THEN "final_nexus"
                  ELSE IF exit_pending THEN "exited" ELSE "returned"
    /\ UNCHANGED <<handler_pc, shutdown_requested, progress_saved, signals,
                   exit_pending, qpc, should_stop>>
    /\ UNCHANGED <<status_passed, run_stats, region_stats, stats_passed, stats_lock,
                   upc, ucall, utmp, last_status>>
    /\ ShutdownBase

\* where a SystemExit raised on the main thread takes run(): inside the try
\* block the finally block runs first, elsewhere run is left at once
RaisedInRun ==
    IF main_pc = "join" THEN "final_apex" ELSE "exited"

\* a first SIGINT or SIGTERM: _signal_handler sets shutdown_requested and goes
\* on to the callback
FirstSignal ==
    /\ signals < MaxSignals
    /\ main_pc \notin {"returned", "exited"}
    /\ ~shutdown_requested
    /\ signals' = signals + 1
    /\ shutdown_requested' = TRUE
    /\ handler_pc' = "callback"
    /\ UNCHANGED <<main_pc, progress_saved, service_state, exit_pending, qpc,
                   should_stop>>
    /\ ShutdownRest

\* variant: sys.exit(1) leaves run() wherever the first handler is
NextSignalAlwaysExits ==
    /\ signals < MaxSignals
    /\ main_pc \notin {"returned", "exited"}
    /\ shutdown_requested
    /\ signals' = signals + 1
    /\ handler_pc' = "done"
    /\ main_pc' = RaisedInRun
    /\ exit_pending' = TRUE
    /\ UNCHANGED <<shutdown_requested, progress_saved, service_state, qpc, should_stop>>
    /\ ShutdownRest

\* a signal while shutdown_requested is set: _signal_handler calls sys.exit(1).
\* The SystemExit is raised where the main thread was interrupted: inside the
\* try block of _on_shutdown its bare except swallows it and the callback
\* ends; anywhere else it leaves the handlers and reaches run()
NextSignal ==
    /\ signals < MaxSignals
    /\ main_pc \notin {"returned", "exited"}
    /\ shutdown_requested
    /\ signals' = signals + 1
    /\ handler_pc' = "done"
    /\ IF handler_pc \in {"down_apex", "down_nexus"}
       THEN UNCHANGED <<main_pc, exit_pending>>
       ELSE /\ main_pc' = RaisedInRun
            /\ exit_pending' = TRUE
    /\ UNCHANGED <<shutdown_requested, progress_saved, service_state, qpc, should_stop>>
    /\ ShutdownRest

\* _on_shutdown: self.should_stop = True
OnShutdownStop ==
    /\ handler_pc = "callback"
    /\ should_stop' = TRUE
    /\ handler_pc' = "save"
    /\ UNCHANGED <<main_pc, shutdown_requested, progress_saved, service_state,
                   signals, exit_pending, qpc>>
    /\ ShutdownRest

\* _on_shutdown: self.progress.save()
OnShutdownSave ==
    /\ handler_pc = "save"
    /\ progress_saved' = TRUE
    /\ handler_pc' = "down_apex"
    /\ UNCHANGED <<main_pc, shutdown_requested, service_state, signals,
                   exit_pending, qpc, should_stop>>
    /\ ShutdownRest

\* _on_shutdown: update_service_status('apex', is_active=False,
\* current_phase='interrupted'), then the same for 'nexus'
OnShutdownStatus ==
    /\ handler_pc \in {"down_apex", "down_nexus"}
    /\ service_state' = set_service_state(IF handler_pc = "down_apex" THEN "apex" ELSE "nexus",
                                          FALSE, "interrupted")
    /\ handler_pc' = IF handler_pc = "down_apex" THEN "down_nexus" ELSE "done"
    /\ UNCHANGED <<main_pc, shutdown_requested, progress_saved, signals,
                   exit_pending, qpc, should_stop>>
    /\ ShutdownRest

\* process_region: the loop condition holds and a poll returned a player
WorkerTakes(t) ==
    /\ qpc[t] = "poll"
    /\ ~should_stop
    /\ ~shutdown_requested
    /\ qpc' = [qpc EXCEPT ![t] = "collect"]
    /\ UNCHANGED <<main_pc, handler_pc, shutdown_requested, progress_saved,
                   service_state, signals, exit_pending, should_stop>>
    /\ ShutdownRest

\* process_region: the player is marked complete or errored
WorkerFinishes(t) ==
    /\ qpc[t] = "collect"
    /\ qpc' = [qpc EXCEPT ![t] = "poll"]
    /\ UNCHANGED <<main_pc, handler_pc, shutdown_requested, progress_saved,
                   service_state, signals, exit_pending, should_stop>>
    /\ ShutdownRest

\* process_region: the loop ends at its top (deadline, stop flag) or after the
\* sixth empty check
WorkerStops(t) ==
    /\ qpc[t] = "poll"
    /\ qpc' = [qpc EXCEPT ![t] = "stopped"]
    /\ UNCHANGED <<main_pc, handler_pc, shutdown_requested, progress_saved,
                   service_state, signals, exit_pending, should_stop>>
    /\ ShutdownRest

ShutdownNext ==
    \/ MarkServiceActive
    \/ StartThreads
    \/ JoinThreads
    \/ FinalStatus
    \/ FirstSignal
    \/ NextSignal
    \/ OnShutdownStop
    \/ OnShutdownSave
    \/ OnShutdownStatus
    \/ \E t \in QThreads : WorkerTakes(t)
    \/ \E t \in QThreads : WorkerFinishes(t)
    \/ \E t \in QThreads : WorkerStops(t)

ShutdownSpec == ShutdownInit /\ [][ShutdownNext]_shutdownVars

Inactive(s) == ~service_state[s].is_active

\* the first signal's handler works in this order: stop flag, progress.save,
\* downgrade of both services; and it has done all of it when the main thread
\* gets back to joining the region threads
GracefulOrder ==
    /\ (should_stop' /\ ~should_stop) => (shutdown_requested /\ ~progress_saved)
    /\ (progress_saved' /\ ~progress_saved) => should_stop
    /\ \A s \in Services :
          (service_state'[s].current_phase = "interrupted"
             /\ service_state[s].current_phase # "interrupted") =>
                 (should_stop /\ progress_saved /\ ~service_state'[s].is_active)
    /\ (handler_pc # "done" /\ handler_pc' = "done" /\ main_pc' = "join") =>
          /\ should_stop' /\ progress_saved'
          /\ \A s \in Services : ~service_state'[s].is_active

\* a signal that follows the first makes the process leave: run() is
\* abandoned and no further thread is awaited
ForcedExit ==
    (signals >= 1 /\ signals' = signals + 1) =>
        (exit_pending' /\ main_pc' \in {"final_apex", "exited"})

\* when run() has returned both services are inactive
InactiveOnReturn ==
    main_pc' = "returned" => \A s \in Services : ~service_state'[s].is_active

\* C35: the first shutdown signal sets the cooperative stop flag, then saves
\* the progress and downgrades the status of both pipelines to inactive, all
\* before the region threads are joined; a second signal forces the exit at
\* once; after run() returns the status of both pipelines is inactive.
C35_GracefulThenForcedShutdown ==
    [][GracefulOrder /\ ForcedExit /\ InactiveOnReturn]_shutdownVars

\* the two parts of C35 that do not involve a second signal
GracefulAndInactive == [][(signals' <= 1 => GracefulOrder) /\ InactiveOnReturn]_shutdownVars

\* run() returned after a first signal was handled while threads were running
GracefulReturn ==
    /\ main_pc = "returned"
    /\ signals = 1
    /\ progress_saved

\* ======================================================================
\* The NEXUS activator: NexusActivator.get_next_ready_player and
\* _resolve_puuid (services/nexus/activator.py)
\* ======================================================================

\* max_attempts of get_next_ready_player
MaxAttempts == 10

\* the queued players come from one region more than the runner has threads for
ActRegions == 1..(NumRegions + 1)
QueuedRegion(p) == ((p - 1) % (NumRegions + 1)) + 1

\* the last_error the activator stores
ResolveFailed == "Failed to resolve NEXUS PUUID"

actVars == <<now, queue, players, act>>

\* every queued player has a row; some rows lack the NEXUS identifier
ActivatorInit ==
    /\ now = 1
    /\ LockOff
    /\ SchedIdle
    /\ IdentIdle
    /\ LimOff
    /\ StatusOff
    /\ match_participants = {}
    /\ match_bans = {}
    /\ match_data = NoMatchData
    /\ account_answers \in [Puuids -> Players \cup {0}]
    /\ league_answers = [n \in Puuids |-> "NONE"]
    /\ mp = [run |-> 0, idx |-> 0]
    /\ first_run = NoTables
    /\ MarkOff
    /\ ScanOff
    /\ SweepOff
    /\ RunOff
    /\ ResolveAllOff
    /\ LimiterOff
    /\ \E known \in SUBSET Players :
          /\ players = {PlayerRow(k, k, IF k \in known THEN k ELSE NULL, "MASTER",
                                  "apex", FALSE) : k \in Players}
    /\ \E check \in [Players -> {0, 1}] :
          queue \in SUBSET {QueueRow(k, "MASTER", check[k]) : k \in Players}
    /\ act = [NoActivator EXCEPT !.pc = "idle"]

\* what the steps of the activator leave alone
ActivatorRest ==
    /\ UNCHANGED <<match_locks, matches, pc, todo, cur, txStart, sel, reason, calls,
                   inserted, released, api_calls, stats, tier, qpc, taken, empties,
                   nca, lpc, lsel, spc, ppc, plocal, rpc, rlocal, last_add>>
    /\ StatsFrame
    /\ LimFrame
    /\ StatusFrame
    /\ PartFrame
    /\ MarkFrame
    /\ ScanFrame
    /\ SweepFrame
    /\ RunFrame
    /\ UNCHANGED <<resolve_all, limiter>>

\* get_account_by_riot_id(game_name, tag_line, region): the puuids the account
\* directory holds for player k; none: the call returns no data
account_by_riot_id(k) == {n \in Puuids : account_answers[n] = k}

\* variant: a player that cannot be resolved is passed over, its entry untouched
resolve_failed_skipping(k) == queue

\* the queue after _resolve_puuid returned False for player k:
\* mark_queue_error(region, game_name, tag_line, 'nexus', 'Failed to resolve ...')
resolve_failed(k) == mark_queue_error(QueueKey(k, "nexus"), ResolveFailed)

\* get_next_ready_player(region) is called; region 0: no region given
GetNextReadyPlayer(region) ==
    /\ act.pc \in {"idle", "returned"}
    /\ act' = [pc |-> "poll", region |-> region, attempts |-> 0, player |-> 0, ret |-> 0]
    /\ UNCHANGED <<now, queue, players>>
    /\ ActivatorRest

\* one turn of the while loop up to the call of _resolve_puuid
ActivatorPoll ==
    /\ act.pc = "poll"
    /\ IF act.attempts >= MaxAttempts \/ get_next_from_queue("nexus") = {}
       THEN act' = [act EXCEPT !.pc = "returned", !.ret = 0]
       ELSE \E e \in get_next_from_queue("nexus") :
               IF act.region # 0 /\ QueuedRegion(e.player) # act.region
               THEN act' = [act EXCEPT !.attempts = @ + 1]
               ELSE IF \E r \in get_player(e.player) : r.nexus_puuid # NULL
               THEN act' = [act EXCEPT !.pc = "returned", !.ret = e.player]
               ELSE act' = [act EXCEPT !.pc = "resolve", !.player = e.player]
    /\ UNCHANGED <<now, queue, players>>
    /\ ActivatorRest

\* _resolve_puuid: the identifier is stored and the refreshed player returned,
\* or the entry is marked errored and the loop goes on
ActivatorResolve ==
    /\ act.pc = "resolve"
    /\ IF account_by_riot_id(act.player) = {}
       THEN /\ queue' = resolve_failed(act.player)
            /\ act' = [act EXCEPT !.pc = "poll", !.attempts = @ + 1]
            /\ UNCHANGED players
       ELSE /\ \E n \in account_by_riot_id(act.player) :
                  players' = update_nexus_puuid(act.player, n)
            /\ act' = [act EXCEPT !.pc = "returned", !.ret = act.player]
            /\ UNCHANGED queue
    /\ UNCHANGED now
    /\ ActivatorRest

\* an hour passes between two calls
ActivatorTick ==
    /\ act.pc \in {"idle", "returned"}
    /\ now < MaxTime
    /\ now' = now + 1
    /\ UNCHANGED <<queue, players, act>>
    /\ ActivatorRest

ActivatorNext ==
    \/ \E region \in {0} \cup ActRegions : GetNextReadyPlayer(region)
    \/ ActivatorPoll
    \/ ActivatorResolve
    \/ ActivatorTick

ActivatorSpec == ActivatorInit /\ [][ActivatorNext]_actVars

\* C36: when the activator cannot resolve the NEXUS identifier of the player
\* it took from the queue, it marks that queue entry errored (attempts + 1,
\* next check in one hour, the failure as last_error), leaves every other
\* entry and the whole players table (so the player's identifiers) unchanged,
\* and goes on with the loop, where the next poll returns another candidate.
C36_UnresolvedIsErroredAndSkipped ==
    [][(act.pc = "resolve" /\ act'.pc = "poll") =>
          LET k == QueueKey(act.player, "nexus")
          IN /\ players' = players
             /\ \E e \in queue :
                   /\ Key(e) = k
                   /\ queue' = (queue \ {e}) \cup
                                  {[e EXCEPT !.status = "pending",
                                             !.attempts = e.attempts + 1,
                                             !.next_check = now + ErrorDelay,
                                             !.last_error = ResolveFailed]}
             /\ \A e \in get_next_from_queue("nexus")' : Key(e) # k
             /\ act'.attempts = act.attempts + 1]_actVars

\* C36 witness: after a player could not be resolved and its entry was marked
\* errored, the same call returned the next candidate.
C36_Witness ==
    /\ act.pc = "returned"
    /\ act.ret # 0
    /\ act.attempts >= 1
    /\ \E e \in queue : /\ e.player # act.ret
                        /\ e.attempts >= 1
                        /\ e.last_error = ResolveFailed
                        /\ e.next_check = now + ErrorDelay
    /\ \E r \in players : r.key # act.ret /\ r.nexus_puuid = NULL

\* player k has a NEXUS identifier or the account directory has one for it
Resolvable(k) ==
    \/ \E r \in players : r.key = k /\ r.nexus_puuid # NULL
    \/ account_by_riot_id(k) # {}

\* the due pending NEXUS entries of the region asked for (0: any region)
DueFor(region) ==
    {e \in queue : /\ e.queue_type = "nexus"
                   /\ e.status = "pending"
                   /\ e.next_check <= now
                   /\ (region = 0 \/ QueuedRegion(e.player) = region)}

\* C37: get_next_ready_player(region) returns a player that has a NEXUS
\* identifier and is of the region asked for, and it returns None only if the
\* NEXUS queue holds no due pending entry of that region whose player's
\* identifier is known or can be resolved.
C37_ReadyPlayerOrNone ==
    [][(act.pc # "returned" /\ act'.pc = "returned") =>
          IF act'.ret # 0
          THEN \E r \in players' : /\ r.key = act'.ret
                                   /\ r.nexus_puuid # NULL
                                   /\ (act.region = 0 \/ QueuedRegion(r.key) = act.region)
          ELSE \A e \in DueFor(act.region)' : ~Resolvable(e.player)']_actVars

\* C37 without a region: the same for calls that pass no region
ReadyPlayerOrNoneAnyRegion ==
    [][(act.pc # "returned" /\ act'.pc = "returned" /\ act.region = 0) =>
          IF act'.ret # 0
          THEN \E r \in players' : r.key = act'.ret /\ r.nexus_puuid # NULL
          ELSE \A e \in DueFor(0)' : ~Resolvable(e.player)']_actVars

\* ======================================================================
\* NexusPUUIDResolver.resolve_all and resolve_batch
\* (services/nexus/puuid_resolver.py)
\* ======================================================================

\* the largest batch: min(100, remaining)
BatchLimit == 100

resolveAllVars == <<players, resolve_all, system_status>>

\* a counter followed up to one more than the number of players; no
\* comparison of the loop tells larger values apart
Counted(x) == IF x > NumPlayers THEN NumPlayers + 1 ELSE x

\* resolve_all(max_players) has been called; max_players 0: None
ResolveAllInit ==
    /\ now = 0
    /\ LockOff
    /\ SchedOff
    /\ IdentIdle
    /\ LimOff
    /\ StatusOff
    /\ match_participants = {}
    /\ match_bans = {}
    /\ match_data = NoMatchData
    /\ account_answers \in [Puuids -> Players \cup {0}]
    /\ league_answers = [n \in Puuids |-> "NONE"]
    /\ mp = [run |-> 0, idx |-> 0]
    /\ first_run = NoTables
    /\ MarkOff
    /\ ScanOff
    /\ SweepOff
    /\ RunOff
    /\ ActOff
    /\ LimiterOff
    /\ \E stored \in SUBSET Players, known \in SUBSET Players :
          players = {PlayerRow(k, k, IF k \in known THEN k ELSE NULL, "MASTER",
                               "apex", FALSE) : k \in stored}
    /\ \E max_players \in 0..NumPlayers :
          resolve_all = [NoResolveAll EXCEPT !.pc = "check", !.max_players = max_players]

\* what the steps of resolve_all leave alone
ResolveAllRest ==
    /\ UNCHANGED <<now, queue, match_locks, matches, pc, todo, cur, txStart, sel, reason,
                   calls, inserted, released, api_calls, stats, tier, qpc, taken,
                   empties, nca, lpc, lsel, spc, ppc, plocal, rpc, rlocal, last_add>>
    /\ UNCHANGED <<status_passed, run_stats, region_stats, stats_passed, stats_lock,
                   upc, ucall, utmp, last_status>>
    /\ StatsFrame
    /\ LimFrame
    /\ PartFrame
    /\ MarkFrame
    /\ ScanFrame
    /\ SweepFrame
    /\ RunFrame
    /\ UNCHANGED <<act, limiter>>

\* remaining = max_players - processed if max_players else 100
\* batch_size = min(100, remaining)
batch_size ==
    LET remaining == IF resolve_all.max_players # 0
                     THEN resolve_all.max_players - resolve_all.processed
                     ELSE BatchLimit
    IN IF remaining < BatchLimit THEN remaining ELSE BatchLimit

\* get_players_without_nexus_puuid(limit): the first limit rows of the ordered
\* result; the rows of the model share tier and league points
players_to_resolve(limit) ==
    {S \in SUBSET {r.key : r \in get_players_without_nexus_puuid} :
        Cardinality(S) = IF Cardinality(get_players_without_nexus_puuid) < limit
                         THEN Cardinality(get_players_without_nexus_puuid)
                         ELSE limit}

\* variant: the loop also ends after a batch in which nothing was resolved
batch_goes_on_if_progress == resolve_all.resolved > 0

\* after a batch the loop goes round again: only players_found = 0 ends it
batch_goes_on == TRUE

\* the top of the while loop: the limit test, then resolve_batch up to its
\* query; no player found ends the loop
ResolveAllCheck ==
    /\ resolve_all.pc = "check"
    /\ IF resolve_all.max_players # 0 /\ resolve_all.processed >= resolve_all.max_players
       THEN resolve_all' = [resolve_all EXCEPT !.pc = "done"]
       ELSE \E S \in players_to_resolve(batch_size) :
               resolve_all' = IF S = {}
                              THEN [resolve_all EXCEPT !.pc = "done"]
                              ELSE [resolve_all EXCEPT !.pc = "batch", !.batch = S,
                                                       !.found = Cardinality(S),
                                                       !.resolved = 0]
    /\ UNCHANGED <<players, system_status>>
    /\ ResolveAllRest

\* _resolve_single_player for the next player of the batch
ResolveSinglePlayer ==
    /\ resolve_all.pc = "batch"
    /\ \E k \in resolve_all.batch :
          IF account_by_riot_id(k) = {}
          THEN /\ resolve_all' = [resolve_all EXCEPT !.batch = @ \ {k}]
               /\ UNCHANGED players
          ELSE /\ \E n \in account_by_riot_id(k) : players' = update_nexus_puuid(k, n)
               /\ resolve_all' = [resolve_all EXCEPT !.batch = @ \ {k},
                                                     !.resolved = @ + 1]
    /\ UNCHANGED system_status
    /\ ResolveAllRest

\* the batch is through: update_service_status('nexus', players_processed =
\* resolved, api_calls_made = api_calls), then processed += players_found
ResolveBatchEnd ==
    /\ resolve_all.pc = "batch"
    /\ resolve_all.batch = {}
    /\ system_status' =
          [system_status EXCEPT
              !["nexus"]["players_processed"] = Counted(@ + resolve_all.resolved),
              !["nexus"]["api_calls_made"] = Counted(@ + resolve_all.found)]
    /\ resolve_all' = [resolve_all EXCEPT
                          !.pc = IF batch_goes_on THEN "check" ELSE "done",
                          !.processed = Counted(@ + resolve_all.found)]
    /\ UNCHANGED players
    /\ ResolveAllRest

ResolveAllNext ==
    \/ ResolveAllCheck
    \/ ResolveSinglePlayer
    \/ ResolveBatchEnd

ResolveAllSpec == ResolveAllInit /\ [][ResolveAllNext]_resolveAllVars

\* the resolver runs on: every step of the loop that can be taken is taken
FairResolveAllSpec == ResolveAllSpec /\ WF_resolveAllVars(ResolveAllNext)

\* C38: resolve_all terminates: without max_players it stops once a batch
\* finds no player that needs resolution, and a player whose lookup always
\* fails does not keep the loop running for ever; with max_players it stops
\* after at most max_players candidates.
C38_ResolveAllTerminates == <>(resolve_all.pc = "done")

\* with max_players set resolve_all terminates, and never has it processed
\* more than max_players candidates
TerminatesWithLimit ==
    /\ (resolve_all.max_players # 0) => <>(resolve_all.pc = "done")
    /\ [](resolve_all.max_players # 0 => resolve_all.processed <= resolve_all.max_players)

\* without max_players resolve_all stops only when no player needs resolution
StopsWhenNoneLeft ==
    [](resolve_all.pc = "done" /\ resolve_all.max_players = 0
          => get_players_without_nexus_puuid = {})

\* ======================================================================
\* The match counter of a unified run: the region threads with their
\* collectors, then the end of UnifiedCollectionRunner.run
\* ======================================================================

totalsVars == <<collectVars, main_pc, service_state>>

\* the threads have been started and the main thread waits in join
TotalsInit ==
    /\ CollectTables
    /\ main_pc = "join"
    /\ handler_pc = "idle"
    /\ shutdown_requested = FALSE
    /\ progress_saved = FALSE
    /\ service_state = [s \in Services |->
                           [is_active |-> TRUE, current_phase |-> "unified_collection"]]
    /\ signals = 0
    /\ exit_pending = FALSE

\* process_region returns at the top of its loop: the run deadline has passed
\* or both queues were empty six times
RegionThreadEnds(w) ==
    /\ pc[w] = "poll"
    /\ main_pc = "join"
    /\ pc' = [pc EXCEPT ![w] = "stopped"]
    /\ UNCHANGED <<todo, reason, api_calls, stats, queue, wplayer, system_status,
                   status_passed, last_status, run_stats, region_stats, stats_passed,
                   errors>>
    /\ RunnerRest

TotalsNext ==
    \/ \E w \in Workers : TakePlayer(w)
    \/ \E w \in Workers : StartCollect(w)
    \/ \E w \in Workers : NexusCollect(w)
    \/ \E w \in Workers : ApexCollect(w)
    \/ \E w \in Workers : EndCollect(w)
    \/ \E w \in Workers : RunnerMarks(w)
    \/ \E w \in Workers : RegionThreadEnds(w)
    \/ JoinThreads
    \/ FinalStatus

TotalsSpec == TotalsInit /\ [][TotalsNext]_totalsVars

\* the match rows the NEXUS pipeline inserted during the run
NexusRows == {r \in matches : r.collected_by = "nexus"}

\* C39: every match NEXUS collects during a unified run is added to
\* matches_collected of the NEXUS row of system_status exactly once: when
\* run() has returned the counter has grown (from 0) by exactly the number of
\* match rows NEXUS inserted.
C39_MatchesCountedOnce ==
    main_pc = "returned" =>
        system_status["nexus"]["matches_collected"] = Cardinality(NexusRows)

\* while the threads run: what the collector has added so far never exceeds
\* the rows NEXUS inserted
CountedByCollector ==
    main_pc = "join" =>
        system_status["nexus"]["matches_collected"] <= Cardinality(NexusRows)

\* ======================================================================
\* RateLimiter: the sliding log of request times per (key_type, region)
\* ======================================================================

KeyTypes == {"apex", "nexus"}
LimiterKeys == KeyTypes \X Regions

\* limiter.requests is self._requests, limiter.time is time.time(); pc and key
\* are the place of each calling thread and the pair it is calling for
LimiterInit ==
    /\ limiter = [requests |-> [k \in LimiterKeys |-> <<>>],
                  pc |-> [t \in QThreads |-> "idle"],
                  key |-> [t \in QThreads |-> <<"apex", 1>>],
                  time |-> 0]
    /\ now = 0
    /\ LockOff
    /\ SchedOff
    /\ IdentIdle
    /\ LimOff
    /\ StatusOff
    /\ match_participants = {}
    /\ match_bans = {}
    /\ match_data = NoMatchData
    /\ account_answers = [n \in Puuids |-> 0]
    /\ league_answers = [n \in Puuids |-> "NONE"]
    /\ mp = [run |-> 0, idx |-> 0]
    /\ first_run = NoTables
    /\ players = {}
    /\ system_status = [s \in Services |-> [c \in Counters |-> 0]]
    /\ MarkOff
    /\ ScanOff
    /\ SweepOff
    /\ RunOff
    /\ ActOff
    /\ ResolveAllOff

LimiterRest ==
    /\ UNCHANGED <<now, queue, match_locks, matches, pc, todo, cur, txStart, sel, reason,
                   calls, inserted, released, api_calls, stats, tier, qpc, taken,
                   empties, nca, lpc, lsel, spc, ppc, plocal, rpc, rlocal, last_add>>
    /\ UNCHANGED <<status_passed, run_stats, region_stats, stats_passed, stats_lock,
                   upc, ucall, utmp, last_status>>
    /\ StatsFrame
    /\ LimFrame
    /\ PartFrame
    /\ MarkFrame
    /\ ScanFrame
    /\ SweepFrame
    /\ RunFrame
    /\ UNCHANGED <<players, resolve_all, system_status, act>>

\* _cleanup_old_requests: [ts for ts in self._requests[key] if ts > cutoff_time]
cleanup_old_requests(log, current_time) ==
    LET cutoff_time == current_time - RATE_LIMIT_WINDOW_SECONDS
        fresh(ts) == ts > cutoff_time
    IN SelectSeq(log, fresh)

\* can_make_request(key_type, region), the whole body under self._lock: the
\* log of the pair is cleaned and its length compared with max_requests; a
\* caller that got True goes on to make its request, one that got False does not
CanMakeRequest(t, key) ==
    /\ limiter.pc[t] \in {"idle", "refused"}
    /\ LET cleaned == cleanup_old_requests(limiter.requests[key], limiter.time)
       IN limiter' = [limiter EXCEPT
                         !.requests[key] = cleaned,
                         !.key[t] = key,
                         !.pc[t] = IF Len(cleaned) < RATE_LIMIT_REQUESTS
                                   THEN "allowed" ELSE "refused"]
    /\ LimiterRest

\* record_request: self._requests[key].append(time.time())
record(log, current_time) == Append(log, current_time)

\* the request was made and record_request(key_type, region) runs under
\* self._lock
RecordRequest(t) ==
    /\ limiter.pc[t] = "allowed"
    /\ limiter' = [limiter EXCEPT
                      !.requests[limiter.key[t]] =
                          record(limiter.requests[limiter.key[t]], limiter.time),
                      !.pc[t] = "idle"]
    /\ LimiterRest

\* a second passes
LimiterTick ==
    /\ limiter.time < MaxClock
    /\ limiter' = [limiter EXCEPT !.time = limiter.time + 1]
    /\ LimiterRest

LimiterNext ==
    \/ \E t \in QThreads, key \in LimiterKeys : CanMakeRequest(t, key)
    \/ \E t \in QThreads : RecordRequest(t)
    \/ LimiterTick

LimiterSpec == LimiterInit /\ [][LimiterNext]_limiter

\* the requests recorded for key in the window of window_seconds that ends at
\* time T; a recorded time leaves the log only when it is window_seconds old, so
\* the log holds every request of each window that ends at limiter.time or later
RecordedInWindow(key, T) ==
    LET inside(ts) == ts > T - RATE_LIMIT_WINDOW_SECONDS /\ ts <= T
    IN Len(SelectSeq(limiter.requests[key], inside))

\* C40: when every request is made only after can_make_request(key_type,
\* region) returned True and is followed by record_request, the requests
\* recorded for one (key_type, region) in any window of window_seconds never
\* exceed max_requests, whatever the interleaving of the calling threads; the
\* requests of another pair never count against it.
C40_WindowNeverExceeded ==
    \A key \in LimiterKeys : \A T \in 0..MaxClock :
        RecordedInWindow(key, T) <= RATE_LIMIT_REQUESTS

\* the second half of the claim: a call for one pair reads and writes the log
\* of that pair only. A record leaves the other logs alone; a call of
\* can_make_request leaves them alone and answers by the length of its own log
PairsIsolated ==
    [][\A t \in QThreads :
          LET others == LimiterKeys \ {limiter'.key[t]}
              own == cleanup_old_requests(limiter.requests[limiter'.key[t]], limiter.time)
          IN /\ limiter.pc[t] = "allowed" /\ limiter'.pc[t] = "idle"
                  => \A k \in others : limiter'.requests[k] = limiter.requests[k]
             /\ limiter.pc[t] # "allowed" /\ limiter'.pc[t] = "allowed"
                  => /\ Len(own) < RATE_LIMIT_REQUESTS
                     /\ \A k \in others : limiter'.requests[k] = limiter.requests[k]
             /\ limiter.pc[t] = "idle" /\ limiter'.pc[t] = "refused"
                  => /\ Len(own) >= RATE_LIMIT_REQUESTS
                     /\ \A k \in others : limiter'.requests[k] = limiter.requests[k]]_limiter

\* a pair is over its limit while the other pair has recorded nothing
OverWhileOtherUnused ==
    \E key \in LimiterKeys :
        /\ RecordedInWindow(key, limiter.time) > RATE_LIMIT_REQUESTS
        /\ \A k \in LimiterKeys \ {key} : limiter.requests[k] = <<>>

\* the excess is bounded by the callers that can be between their check and
\* their record: every thread beyond the first adds at most one request
ExcessBoundedByThreads ==
    \A key \in LimiterKeys : \A T \in 0..MaxClock :
        RecordedInWindow(key, T) <= RATE_LIMIT_REQUESTS + NumThreads - 1


====
